---------------------------- MODULE Spec2Model ----------------------------
(***************************************************************************)
(* Model of the digipick admin dashboard: the hosted relational store      *)
(* (devices, company_details, service_requests), the query services that   *)
(* read it, the AMC status derivation, ticket-number generation and the    *)
(* data-fetching hooks.                                                    *)
(*                                                                         *)
(* Time is an integer count of ticks since the epoch (the value of         *)
(* Date.getTime()).  A UTC calendar day is MsPerDay ticks long; the first  *)
(* tick of a day is its midnight and the last tick is its final            *)
(* millisecond.  A date column (YYYY-MM-DD) is the number of its day.      *)
(***************************************************************************)
EXTENDS Integers, Sequences, FiniteSets, TLC

VARIABLES
    now,        \* the current instant, in ticks (Date.now())
    tz,         \* the browser's offset from UTC, in ticks (local = UTC + tz)
    devices,    \* table devices: sequence of rows in insertion order
    orgs,       \* table company_details: sequence of rows in insertion order
    requests,   \* table service_requests: sequence of rows in insertion order
    view,       \* the last AMC status rendered or queried, and where
    resp,       \* the last call made to a query service and what it returned
    clients,    \* per browser session: position inside createServiceRequest
    issued,     \* history of ticket numbers generated, in completion order
    hook,       \* component-local state of the fetch hook under study
    net         \* requests in flight between the hooks and the store

vars == <<now, tz, devices, orgs, requests, view, resp, clients, issued, hook, net>>

\* A nullable or optional value is the empty sequence (null / undefined) or <<v>>
NULL == <<>>
Some(v) == <<v>>
Val(o) == o[1]

-----------------------------------------------------------------------------
(* Bounds of the model *)

MsPerDay == 4          \* ticks per calendar day (scale of 1000 * 3600 * 24)
StartDay == 2          \* the UTC day on which every behaviour starts
MaxDays == 2           \* number of days the clock may run through
MaxAmcDevices == 1     \* devices held by the store in the AMC specification
MaxArchived == 1       \* the newest rows of a table that the list specification archives
MaxPage == 3           \* highest page number a list call asks for
MaxCreations == 2      \* service request creations in the ticket specification
MaxClients == 2        \* browsers that create service requests at the same time
MaxRequests == 3       \* requests one fetch hook issues in the hook specification
MaxMutations == 1      \* mutations the handlers of one page call
MaxLogins == 2         \* sign-ins submitted in the sign-in specification
MaxTabActions == 2     \* things the user does on the organization page

(* Program constants *)

ExpiringSoonDays == 7
DefaultPageSize == 20

-----------------------------------------------------------------------------
(* Arithmetic helpers *)

Min(a, b) == IF a < b THEN a ELSE b
Max(a, b) == IF a > b THEN a ELSE b

\* Math.ceil(a / b) for b > 0 and any integer a
MathCeil(a, b) == -((-a) \div b)

\* new Date('YYYY-MM-DD').getTime(): a date-only string is UTC midnight
DateParse(day) == day * MsPerDay

\* new Date(t).toISOString().split('T')[0]: the UTC calendar day of an instant
ToISODate(t) == t \div MsPerDay

-----------------------------------------------------------------------------
(* AMC status derivation *)

\* getAMCStatus with the day difference rounded down instead of up
getAMCStatusFloor(device, t) ==
    IF device.amc_end_date = NULL
    THEN [isInAMC |-> FALSE, isExpired |-> FALSE, isExpiringSoon |-> FALSE,
          daysUntilExpiry |-> NULL]
    ELSE LET timeDiff == DateParse(Val(device.amc_end_date)) - t
             daysDiff == timeDiff \div MsPerDay
         IN  [isInAMC |-> daysDiff > 0,
              isExpired |-> daysDiff < 0,
              isExpiringSoon |-> daysDiff >= 0 /\ daysDiff <= ExpiringSoonDays,
              daysUntilExpiry |-> Some(daysDiff)]

\* dashboardService.getAMCStatus(device), evaluated at instant t
getAMCStatus(device, t) ==
    IF device.amc_end_date = NULL
    THEN [isInAMC |-> FALSE, isExpired |-> FALSE, isExpiringSoon |-> FALSE,
          daysUntilExpiry |-> NULL]
    ELSE LET timeDiff == DateParse(Val(device.amc_end_date)) - t
             daysDiff == MathCeil(timeDiff, MsPerDay)
         IN  [isInAMC |-> daysDiff > 0,
              isExpired |-> daysDiff < 0,
              isExpiringSoon |-> daysDiff >= 0 /\ daysDiff <= ExpiringSoonDays,
              daysUntilExpiry |-> Some(daysDiff)]

\* getDaysUntilExpiry(endDate) of the dashboard tables, evaluated at instant t
getDaysUntilExpiry(endDate, t) ==
    IF endDate = NULL
    THEN NULL
    ELSE LET diffTime == DateParse(Val(endDate)) - t
         IN  Some(MathCeil(diffTime, MsPerDay))

\* The status badge the dashboard tables render for a row
statusBadge(device, t) ==
    LET daysUntilExpiry == getDaysUntilExpiry(device.amc_end_date, t)
    IN  IF daysUntilExpiry = NULL THEN [color |-> "gray", days |-> NULL]
        ELSE IF Val(daysUntilExpiry) < 0 THEN [color |-> "red", days |-> daysUntilExpiry]
        ELSE IF Val(daysUntilExpiry) <= ExpiringSoonDays
             THEN [color |-> "orange", days |-> daysUntilExpiry]
        ELSE [color |-> "green", days |-> daysUntilExpiry]

\* The AMC end badge of the devices page: red when
\* new Date(device.amc_end_date) < new Date(), green otherwise
devicesPageBadge(device, t) ==
    IF device.amc_end_date = NULL THEN [color |-> "none", days |-> NULL]
    ELSE [color |-> IF DateParse(Val(device.amc_end_date)) < t THEN "red" ELSE "green",
          days |-> NULL]

\* isAmcExpired(amcEndDate) of the device management view
isAmcExpired(amcEndDate, t) ==
    IF amcEndDate = NULL THEN FALSE ELSE DateParse(Val(amcEndDate)) < t

\* The AMC badge of the device management view: no badge without an end
\* date, else red when isAmcExpired and green otherwise
amcBadge(device, t) ==
    IF device.amc_end_date = NULL THEN [color |-> "none", days |-> NULL]
    ELSE [color |-> IF isAmcExpired(device.amc_end_date, t) THEN "red" ELSE "green",
          days |-> NULL]

-----------------------------------------------------------------------------
(* The hosted store: rows, identifiers and the query-builder primitives *)

\* A uuid: its first four characters and the remainder, kept as a serial
Uuid(head, rest) == [head |-> head, rest |-> rest]

\* SQL: rows of a table, in table order, that satisfy a predicate
Where(rows, P(_)) == SelectSeq(rows, P)

\* .order(column, { ascending: false }) on the creation timestamp: rows are
\* appended in creation order, so newest-first is the reversed table
NewestFirst(rows) == [i \in 1..Len(rows) |-> rows[Len(rows) + 1 - i]]

\* .range(from, to): the rows at zero-based positions from..to, inclusive
Range(rows, from, to) == SubSeq(rows, from + 1, Min(to + 1, Len(rows)))

\* JavaScript truthiness of an optional value: undefined, null, false, 0 and
\* the empty string are falsy
TruthyFlag(o) == o # NULL /\ Val(o) = TRUE
TruthyNumber(o) == o # NULL /\ Val(o) # 0
TruthyText(o) == o # NULL /\ Val(o) # <<>>
TruthyString(o) == o # NULL /\ Val(o) # ""
TruthyId(o) == o # NULL

\* n || fallback, for an optional number
OrElse(o, fallback) == IF TruthyNumber(o) THEN Val(o) ELSE fallback

\* ilike '%text%': case-insensitive substring match on a nullable text column
ToLower(c) ==
    CASE c = "A" -> "a" [] c = "B" -> "b" [] c = "C" -> "c" [] c = "D" -> "d"
      [] c = "E" -> "e" [] c = "F" -> "f" [] c = "G" -> "g" [] c = "H" -> "h"
      [] c = "I" -> "i" [] c = "J" -> "j" [] c = "K" -> "k" [] c = "L" -> "l"
      [] c = "M" -> "m" [] c = "N" -> "n" [] c = "O" -> "o" [] c = "P" -> "p"
      [] c = "Q" -> "q" [] c = "R" -> "r" [] c = "S" -> "s" [] c = "T" -> "t"
      [] c = "U" -> "u" [] c = "V" -> "v" [] c = "W" -> "w" [] c = "X" -> "x"
      [] c = "Y" -> "y" [] c = "Z" -> "z"
      [] OTHER -> c
LowerStr(str) == [i \in 1..Len(str) |-> ToLower(str[i])]
Contains(hay, needle) ==
    \E i \in 0..(Len(hay) - Len(needle)) :
        SubSeq(hay, i + 1, i + Len(needle)) = needle

\* SQL LIKE: in the pattern, % stands for any run of characters and _ for any
\* one character
RECURSIVE Like(_, _)
Like(str, pattern) ==
    IF pattern = <<>> THEN str = <<>>
    ELSE IF Head(pattern) = "%"
    THEN Like(str, Tail(pattern)) \/ (str # <<>> /\ Like(Tail(str), pattern))
    ELSE /\ str # <<>>
         /\ Head(pattern) = "_" \/ Head(pattern) = Head(str)
         /\ Like(Tail(str), Tail(pattern))

\* column.ilike.%text% with the text put into the pattern as it was typed
ilike(column, text) ==
    /\ column # NULL
    /\ Like(LowerStr(Val(column)), <<"%">> \o LowerStr(text) \o <<"%">>)

\* The envelope every paginated list call returns
Envelope(data, totalCount, page, pageSize) ==
    [data |-> data, totalCount |-> totalCount, page |-> page,
     pageSize |-> pageSize, totalPages |-> MathCeil(totalCount, pageSize)]

\* pagination?.page and pagination?.pageSize of an optional pagination argument
PageOf(pagination) == IF pagination = NULL THEN NULL ELSE Val(pagination).page
PageSizeOf(pagination) == IF pagination = NULL THEN NULL ELSE Val(pagination).pageSize

-----------------------------------------------------------------------------
(* Device and organization query services *)

NoDeviceFilters ==
    [search |-> NULL, company_id |-> NULL, archived |-> NULL, include_archived |-> NULL]

\* An archived predicate without the include_archived branch
deviceArchivedClauseWithoutInclude(filters, row) ==
    IF filters.archived # NULL THEN row.archived = Val(filters.archived)
    ELSE row.archived = FALSE

\* The archived predicate of deviceService.getAll / getPaginated / getByCompanyId
deviceArchivedClause(filters, row) ==
    IF TruthyFlag(filters.include_archived) THEN TRUE
    ELSE IF filters.archived # NULL THEN row.archived = Val(filters.archived)
    ELSE row.archived = FALSE

\* The where-clause deviceService.getPaginated builds from its filters
deviceMatches(filters, row) ==
    /\ deviceArchivedClause(filters, row)
    /\ TruthyText(filters.search) =>
          \/ ilike(Some(row.device_name), Val(filters.search))
          \/ ilike(row.amc_id, Val(filters.search))
          \/ ilike(row.mac_address, Val(filters.search))
          \/ ilike(row.make, Val(filters.search))
          \/ ilike(row.model, Val(filters.search))
    /\ TruthyId(filters.company_id) => row.company_id = Val(filters.company_id)

\* getPaginated with a range one row too long
deviceGetPaginatedLongRange(table, filters, pagination) ==
    LET page == OrElse(PageOf(pagination), 1)
        pageSize == OrElse(PageSizeOf(pagination), DefaultPageSize)
        from == (page - 1) * pageSize
        to == from + pageSize
        matched(row) == deviceMatches(filters, row)
        rows == NewestFirst(Where(table, matched))
    IN  Envelope(Range(rows, from, to), Len(rows), page, pageSize)

\* getPaginated that takes the page number to be zero-based
deviceGetPaginatedZeroBasedPage(table, filters, pagination) ==
    LET page == OrElse(PageOf(pagination), 1)
        pageSize == OrElse(PageSizeOf(pagination), DefaultPageSize)
        from == page * pageSize
        to == from + pageSize - 1
        matched(row) == deviceMatches(filters, row)
        rows == NewestFirst(Where(table, matched))
    IN  Envelope(Range(rows, from, to), Len(rows), page, pageSize)

\* deviceService.getPaginated(filters, pagination) against a devices table
deviceGetPaginated(table, filters, pagination) ==
    LET page == OrElse(PageOf(pagination), 1)
        pageSize == OrElse(PageSizeOf(pagination), DefaultPageSize)
        from == (page - 1) * pageSize
        to == from + pageSize - 1
        matched(row) == deviceMatches(filters, row)
        rows == NewestFirst(Where(table, matched))
    IN  Envelope(Range(rows, from, to), Len(rows), page, pageSize)

NoOrganizationFilters == [search |-> NULL, archived |-> NULL]

\* The where-clause organizationService.getPaginated builds from its filters
organizationMatches(filters, row) ==
    /\ TruthyText(filters.search) =>
          \/ ilike(Some(row.name), Val(filters.search))
          \/ ilike(row.email, Val(filters.search))
          \/ ilike(row.phone, Val(filters.search))
    /\ filters.archived # NULL => row.archived = Val(filters.archived)

\* organizationService.getPaginated(filters, pagination) against company_details
organizationGetPaginated(table, filters, pagination) ==
    LET page == OrElse(PageOf(pagination), 1)
        pageSize == OrElse(PageSizeOf(pagination), DefaultPageSize)
        from == (page - 1) * pageSize
        to == from + pageSize - 1
        matched(row) == organizationMatches(filters, row)
        rows == NewestFirst(Where(table, matched))
    IN  Envelope(Range(rows, from, to), Len(rows), page, pageSize)

-----------------------------------------------------------------------------
(* Dashboard query service *)

NoDeviceListFilters == [search |-> NULL]

\* The search clause shared by the dashboard device lists
dashboardDeviceMatches(filters, row) ==
    TruthyText(filters.search) =>
        \/ ilike(Some(row.device_name), Val(filters.search))
        \/ ilike(row.amc_id, Val(filters.search))
        \/ ilike(row.mac_address, Val(filters.search))

\* .order('amc_end_date', { ascending: true }); rows with equal dates keep
\* their table order
RECURSIVE OrderByAmcEndDate(_)
OrderByAmcEndDate(rows) ==
    IF rows = <<>> THEN <<>>
    ELSE LET first == CHOOSE i \in 1..Len(rows) :
                 \A j \in 1..Len(rows) :
                     \/ Val(rows[i].amc_end_date) < Val(rows[j].amc_end_date)
                     \/ /\ Val(rows[i].amc_end_date) = Val(rows[j].amc_end_date)
                        /\ i <= j
             rest == [k \in 1..(Len(rows) - 1) |->
                         IF k < first THEN rows[k] ELSE rows[k + 1]]
         IN  <<rows[first]>> \o OrderByAmcEndDate(rest)

\* An expired list whose cutoff is a day early
getExpiredDevicesBeforeYesterday(table, pagination, filters, t) ==
    LET page == OrElse(PageOf(pagination), 1)
        pageSize == OrElse(PageSizeOf(pagination), DefaultPageSize)
        from == (page - 1) * pageSize
        to == from + pageSize - 1
        today == ToISODate(t)
        matched(row) ==
            /\ row.amc_end_date # NULL
            /\ Val(row.amc_end_date) < today - 1
            /\ dashboardDeviceMatches(filters, row)
        rows == OrderByAmcEndDate(Where(table, matched))
    IN  Envelope(Range(rows, from, to), Len(rows), page, pageSize)

\* dashboardService.getExpiredDevices(pagination, filters) at instant t
getExpiredDevices(table, pagination, filters, t) ==
    LET page == OrElse(PageOf(pagination), 1)
        pageSize == OrElse(PageSizeOf(pagination), DefaultPageSize)
        from == (page - 1) * pageSize
        to == from + pageSize - 1
        today == ToISODate(t)
        matched(row) ==
            /\ row.amc_end_date # NULL
            /\ Val(row.amc_end_date) < today
            /\ dashboardDeviceMatches(filters, row)
        rows == OrderByAmcEndDate(Where(table, matched))
    IN  Envelope(Range(rows, from, to), Len(rows), page, pageSize)

\* dashboardService.getExpiringSoonDevices(pagination, filters) at instant t
getExpiringSoonDevices(table, pagination, filters, t) ==
    LET page == OrElse(PageOf(pagination), 1)
        pageSize == OrElse(PageSizeOf(pagination), DefaultPageSize)
        from == (page - 1) * pageSize
        to == from + pageSize - 1
        today == ToISODate(t)
        sevenDaysFromNow == ToISODate(t + ExpiringSoonDays * MsPerDay)
        matched(row) ==
            /\ row.amc_end_date # NULL
            /\ Val(row.amc_end_date) > today
            /\ Val(row.amc_end_date) <= sevenDaysFromNow
            /\ dashboardDeviceMatches(filters, row)
        rows == OrderByAmcEndDate(Where(table, matched))
    IN  Envelope(Range(rows, from, to), Len(rows), page, pageSize)

\* count: 'exact' of a filtered table
CountWhere(table, P(_)) == Len(SelectSeq(table, P))

\* dashboardService.getDashboardStats() at instant t
getDashboardStats(orgTable, deviceTable, t) ==
    LET today == ToISODate(t)
        sevenDaysFromNow == ToISODate(t + ExpiringSoonDays * MsPerDay)
        active(o) == o.archived = FALSE
        any(d) == TRUE
        inAmc(d) == d.amc_end_date # NULL /\ Val(d.amc_end_date) > today
        outOfAmc(d) == d.amc_end_date = NULL \/ Val(d.amc_end_date) < today
        expiring(d) ==
            /\ d.amc_end_date # NULL
            /\ Val(d.amc_end_date) > today
            /\ Val(d.amc_end_date) <= sevenDaysFromNow
        expired(d) == d.amc_end_date # NULL /\ Val(d.amc_end_date) < today
    IN  [totalOrganizations |-> CountWhere(orgTable, active),
         totalDevices |-> CountWhere(deviceTable, any),
         devicesInAMC |-> CountWhere(deviceTable, inAmc),
         devicesOutOfAMC |-> CountWhere(deviceTable, outOfAmc),
         devicesExpiringInSevenDays |-> CountWhere(deviceTable, expiring),
         devicesExpired |-> CountWhere(deviceTable, expired)]

-----------------------------------------------------------------------------
(* Service request query service *)

NoServiceRequestFilters == [status |-> NULL, organization_id |-> NULL]

\* The where-clause ServiceRequestService.getServiceRequests builds
serviceRequestMatches(filters, row) ==
    /\ TruthyString(filters.status) => row.status = Val(filters.status)
    /\ TruthyId(filters.organization_id) =>
          row.organization_id = Val(filters.organization_id)

\* .order('date_of_request', { ascending: false }): rows are appended in
\* request order, so latest-first is the reversed table
ServiceRequestService_getServiceRequests(table, filters, pagination) ==
    LET matched(row) == serviceRequestMatches(filters, row)
        from == (pagination.page - 1) * pagination.pageSize
        to == from + pagination.pageSize - 1
        rows == NewestFirst(Where(table, matched))
    IN  Envelope(Range(rows, from, to), Len(rows), pagination.page, pagination.pageSize)

-----------------------------------------------------------------------------
(* Ticket-number generation and service request creation *)

TicketCodeLength == 4
TicketSequenceWidth == 4

\* String.prototype.toUpperCase on the characters a uuid is made of
ToUpper(c) ==
    CASE c = "a" -> "A" [] c = "b" -> "B" [] c = "c" -> "C"
      [] c = "d" -> "D" [] c = "e" -> "E" [] c = "f" -> "F"
      [] OTHER -> c
UpperStr(str) == [i \in 1..Len(str) |-> ToUpper(str[i])]

\* id.slice(0, 4): a uuid keeps its first four characters in head
Slice4(id) == SubSeq(id.head, 1, Min(TicketCodeLength, Len(id.head)))

\* String(n) for n >= 0, as the sequence of its decimal digits
RECURSIVE Digits(_)
Digits(n) == IF n < 10 THEN <<n>> ELSE Digits(n \div 10) \o <<n % 10>>

\* str.padStart(width, '0') on a digit string
RECURSIVE PadStart(_, _)
PadStart(str, width) == IF Len(str) >= width THEN str ELSE PadStart(<<0>> \o str, width)

\* The calendar day getFullYear / getMonth / getDate report: the day of the
\* instant in the browser's time zone
LocalDate(t, offset) == (t + offset) \div MsPerDay

\* The instants `${year}-${month}-${day}T00:00:00.000Z` and
\* `${year}-${month}-${day}T23:59:59.999Z` of a calendar day
StartOfDayZ(day) == day * MsPerDay
EndOfDayZ(day) == day * MsPerDay + (MsPerDay - 1)

\* A ticket number whose sequence is drawn from the clock, not from a count
generateTicketNumberFromClock(table, organizationId, deviceId, t, offset) ==
    [date |-> LocalDate(t, offset),
     orgCode |-> UpperStr(Slice4(organizationId)),
     deviceCode |-> UpperStr(Slice4(deviceId)),
     seq |-> PadStart(Digits(t + offset + 1), TicketSequenceWidth)]

\* ServiceRequestService.generateTicketNumber(organizationId, deviceId), run at
\* instant t in a browser whose zone offset is `offset`, against the table
generateTicketNumber(table, organizationId, deviceId, t, offset) ==
    LET day == LocalDate(t, offset)
        orgCode == UpperStr(Slice4(organizationId))
        deviceCode == UpperStr(Slice4(deviceId))
        sameDay(row) ==
            /\ row.date_of_request >= StartOfDayZ(day)
            /\ row.date_of_request < EndOfDayZ(day)
        count == CountWhere(table, sameDay)
        sequentialNumber == PadStart(Digits(count + 1), TicketSequenceWidth)
    IN  [date |-> day, orgCode |-> orgCode, deviceCode |-> deviceCode,
         seq |-> sequentialNumber]

\* A table without the constraint: every ticket number is accepted
TicketNoUnconstrained(table, ticketNo) ==
    \A i \in 1..Len(table) : table[i].ticket_no \in {ticketNo, table[i].ticket_no}

\* constraint service_requests_ticket_no_key unique (ticket_no)
TicketNoIsFree(table, ticketNo) ==
    \A i \in 1..Len(table) : table[i].ticket_no # ticketNo

\* A `timestamp with time zone` column given a YYYY-MM-DD string: the store
\* keeps, and returns, the instant of that day's midnight (UTC)
timestamptz(value) ==
    IF value = NULL THEN NULL ELSE Some([timestamp |-> DateParse(Val(value).date)])

\* The row an insert of { ...serviceRequestData, ticket_no } stores at instant t:
\* id, date_of_request and status take their column defaults
InsertedRequest(table, serviceRequestData, ticketNo, t) ==
    [id |-> Uuid(<<"9","9","9","9">>, Len(table) + 1),
     ticket_no |-> ticketNo,
     organization_id |-> serviceRequestData.organization_id,
     device_id |-> serviceRequestData.device_id,
     service_type |-> serviceRequestData.service_type,
     date_of_service |-> timestamptz(serviceRequestData.date_of_service),
     service_engineer |-> NULL,
     date_of_request |-> t,
     status |-> "pending"]

-----------------------------------------------------------------------------
(* Initial values shared by the specifications *)

NoView == [place |-> "none", at |-> 0, table |-> <<>>, device |-> NULL, out |-> NULL]
NoResp == [call |-> "none", at |-> 0, filters |-> NULL, pagination |-> NULL,
           result |-> NULL]
NoHook == [kind |-> "none"]

FirstInstant == StartDay * MsPerDay
LastInstant == (StartDay + MaxDays) * MsPerDay - 1

\* The end dates a device is given: around every day of the run, the days
\* next to the boundaries of the expiring-soon window
AmcOffsets == {-1, 0, 1, ExpiringSoonDays, ExpiringSoonDays + 1}
AmcEndDates == {day + k : day \in StartDay..(StartDay + MaxDays - 1), k \in AmcOffsets}

DeviceHeads == {<<"e","5","f","6">>}

\* The value an insert stores in a nullable column: the one given, or null
Given(data, column) == IF column \in DOMAIN data THEN data[column] ELSE NULL

\* A devices row as deviceService.create stores it: the id is generated and
\* archived takes its column default
DeviceRow(id, deviceData) ==
    [id |-> id, company_id |-> deviceData.company_id,
     device_name |-> deviceData.device_name, amc_id |-> deviceData.amc_id,
     mac_address |-> Given(deviceData, "mac_address"),
     make |-> Given(deviceData, "make"), model |-> Given(deviceData, "model"),
     amc_end_date |-> deviceData.amc_end_date, archived |-> FALSE]

\* A company_details row as organizationService.create stores it
OrganizationRow(id, organizationData) ==
    [id |-> id, name |-> organizationData.name, email |-> organizationData.email,
     phone |-> Given(organizationData, "phone"),
     country |-> IF TruthyText(organizationData.country)
                 THEN organizationData.country
                 ELSE Some(<<"I","n","d","i","a">>),
     archived |-> FALSE]

-----------------------------------------------------------------------------
(* Actions: the clock and the store *)

\* Time passes
Tick ==
    /\ now < LastInstant
    /\ now' = now + 1
    /\ UNCHANGED <<tz, devices, orgs, requests, view, resp, clients, issued, hook, net>>

\* deviceService.create(deviceData)
CreateDevice(head, deviceData) ==
    /\ devices' = Append(devices, DeviceRow(Uuid(head, Len(devices) + 1), deviceData))
    /\ UNCHANGED <<now, tz, orgs, requests, view, resp, clients, issued, hook, net>>

\* What the store returns for the row an update ... .select().single() touched
Returned(call, row) ==
    [call |-> call, at |-> now, filters |-> NULL, pagination |-> NULL,
     result |-> Some(row)]

\* deviceService.archive(id) / deviceService.unarchive(id)
SetDeviceArchived(i, flag) ==
    /\ i \in 1..Len(devices)
    /\ devices[i].archived # flag
    /\ devices' = [devices EXCEPT ![i].archived = flag]
    /\ resp' = Returned("deviceService.setArchived", devices'[i])
    /\ UNCHANGED <<now, tz, orgs, requests, view, clients, issued, hook, net>>

\* organizationService.archive(id) / organizationService.unarchive(id)
SetOrganizationArchived(i, flag) ==
    /\ i \in 1..Len(orgs)
    /\ orgs[i].archived # flag
    /\ orgs' = [orgs EXCEPT ![i].archived = flag]
    /\ resp' = Returned("organizationService.setArchived", orgs'[i])
    /\ UNCHANGED <<now, tz, devices, requests, view, clients, issued, hook, net>>

-----------------------------------------------------------------------------
(* Actions: the places that derive or query the AMC status *)

Show(place, device, out) ==
    /\ view' = [place |-> place, at |-> now, table |-> devices, device |-> device,
                out |-> out]
    /\ UNCHANGED <<now, tz, devices, orgs, requests, resp, clients, issued, hook, net>>

\* dashboardService.getAMCStatus(device)
CallGetAMCStatus ==
    \E i \in 1..Len(devices) :
        Show("getAMCStatus", Some(devices[i]), getAMCStatus(devices[i], now))

\* DeviceListTable / PaginatedDeviceTable render a row's status badge
RenderDashboardTable ==
    \E i \in 1..Len(devices) :
        Show("dashboardTable", Some(devices[i]), statusBadge(devices[i], now))

\* DeviceManagement renders a row's AMC end badge
RenderDeviceManagement ==
    \E i \in 1..Len(devices) :
        Show("deviceManagement", Some(devices[i]), amcBadge(devices[i], now))

\* The devices page renders a row's AMC end badge
RenderDevicesPage ==
    \E i \in 1..Len(devices) :
        Show("devicesPage", Some(devices[i]), devicesPageBadge(devices[i], now))

\* The dashboard loads its expired tab
LoadExpiredTab ==
    Show("expiredTab", NULL, getExpiredDevices(devices, NULL, NoDeviceListFilters, now))

\* The dashboard loads its expiring-soon tab
LoadExpiringSoonTab ==
    Show("expiringSoonTab", NULL,
         getExpiringSoonDevices(devices, NULL, NoDeviceListFilters, now))

\* The dashboard loads its statistics
LoadDashboardStats ==
    Show("stats", NULL, getDashboardStats(orgs, devices, now))

\* A device is registered with some AMC end date, or none
RegisterAmcDevice ==
    /\ Len(devices) < MaxAmcDevices
    /\ \E head \in DeviceHeads, end \in {NULL} \cup {Some(d) : d \in AmcEndDates} :
          CreateDevice(head, [company_id |-> Uuid(<<"a","1","b","2">>, 1),
                              device_name |-> <<"A","B","C","D","E","F">>,
                              amc_id |-> NULL, amc_end_date |-> end])

AmcInit ==
    /\ now = FirstInstant
    /\ tz = 0
    /\ devices = <<>>
    /\ orgs = <<>>
    /\ requests = <<>>
    /\ view = NoView
    /\ resp = NoResp
    /\ clients = <<>>
    /\ issued = <<>>
    /\ hook = NoHook
    /\ net = {}

AmcNext ==
    \/ Tick
    \/ RegisterAmcDevice
    \/ CallGetAMCStatus
    \/ RenderDashboardTable
    \/ RenderDeviceManagement
    \/ RenderDevicesPage
    \/ LoadExpiredTab
    \/ LoadExpiringSoonTab
    \/ LoadDashboardStats

\* The AMC status of the devices in the store, as every place shows it while
\* time passes
AmcSpec == AmcInit /\ [][AmcNext]_vars

-----------------------------------------------------------------------------
(* Actions: list calls against a seeded store *)

\* The n-th seeded device: every third one has another name, odd ones carry
\* an AMC that ended the day before the first day
SeedDevice(n) ==
    DeviceRow(Uuid(<<"e","5","f","6">>, n),
              [company_id |-> Uuid(<<"a","1","b","2">>, 1),
               device_name |-> IF n % 3 = 0 THEN <<"X","Y","Z">>
                               ELSE <<"A","B","C","D","E","F">>,
               amc_id |-> NULL,
               make |-> IF n % 6 = 0 THEN Some(<<"F","a","b","c">>) ELSE NULL,
               amc_end_date |-> IF n % 2 = 1 THEN Some(StartDay - 1) ELSE NULL])

SeedOrganization(n) ==
    OrganizationRow(Uuid(<<"a","1","b","2">>, n),
                    [name |-> <<"A","c","m","e">>, email |-> NULL, country |-> NULL])

\* k service requests created one after the other at the first instant
RECURSIVE SeedRequests(_)
SeedRequests(k) ==
    IF k = 0 THEN <<>>
    ELSE LET table == SeedRequests(k - 1)
             data == [organization_id |-> Uuid(<<"a","1","b","2">>, 1),
                      device_id |-> Uuid(<<"e","5","f","6">>, 1),
                      service_type |-> "repair", date_of_service |-> NULL]
             ticketNo == generateTicketNumber(table, data.organization_id,
                                              data.device_id, FirstInstant, 0)
         IN  Append(table, InsertedRequest(table, data, ticketNo, FirstInstant))

\* The seeded stores: (devices, organizations, service requests)
Seeds == {<<0, 0, 0>>, <<3, 2, 3>>, <<5, 1, 0>>, <<25, 1, 1>>}

PageSizes == {2, DefaultPageSize}

Paginations ==
    {NULL} \cup {Some([page |-> Some(p), pageSize |-> Some(size)]) :
                    p \in 1..MaxPage, size \in PageSizes}

DeviceFilterInputs ==
    {NoDeviceFilters,
     [NoDeviceFilters EXCEPT !.archived = Some(TRUE)],
     [NoDeviceFilters EXCEPT !.archived = Some(FALSE)],
     [NoDeviceFilters EXCEPT !.include_archived = Some(TRUE)],
     [NoDeviceFilters EXCEPT !.include_archived = Some(TRUE), !.archived = Some(FALSE)],
     [NoDeviceFilters EXCEPT !.include_archived = Some(FALSE), !.archived = Some(TRUE)],
     [NoDeviceFilters EXCEPT !.search = Some(<<"a","b","c">>)],
     [NoDeviceFilters EXCEPT !.search = Some(<<"a","_","c">>)]}

OrganizationFilterInputs ==
    {NoOrganizationFilters,
     [NoOrganizationFilters EXCEPT !.archived = Some(TRUE)],
     [NoOrganizationFilters EXCEPT !.archived = Some(FALSE)],
     [NoOrganizationFilters EXCEPT !.search = Some(<<"c","M">>)]}

\* The rows of a table that get archived and unarchived: its newest ones
Archivable(table) == {i \in 1..Len(table) : i > Len(table) - MaxArchived}

Answer(call, filters, pagination, result) ==
    /\ resp' = [call |-> call, at |-> now, filters |-> Some(filters),
                pagination |-> pagination, result |-> Some(result)]
    /\ UNCHANGED <<now, tz, devices, orgs, requests, view, clients, issued, hook, net>>

\* deviceService.getPaginated(filters, pagination)
ListDevices ==
    \E filters \in DeviceFilterInputs, pagination \in Paginations :
        Answer("devices", filters, pagination,
               deviceGetPaginated(devices, filters, pagination))

\* organizationService.getPaginated(filters, pagination)
ListOrganizations ==
    \E filters \in OrganizationFilterInputs, pagination \in Paginations :
        Answer("organizations", filters, pagination,
               organizationGetPaginated(orgs, filters, pagination))

\* dashboardService.getExpiredDevices(pagination, filters)
ListExpiredDevices ==
    \E pagination \in Paginations :
        Answer("expiredDevices", NoDeviceListFilters, pagination,
               getExpiredDevices(devices, pagination, NoDeviceListFilters, now))

\* serviceRequestService.getServiceRequests(filters, pagination)
ListServiceRequests ==
    \E pagination \in Paginations \ {NULL} :
        LET given == [page |-> Val(Val(pagination).page),
                      pageSize |-> Val(Val(pagination).pageSize)]
        IN  Answer("serviceRequests", NoServiceRequestFilters, pagination,
                   ServiceRequestService_getServiceRequests(
                       requests, NoServiceRequestFilters, given))

ArchiveDevice == \E i \in Archivable(devices) : SetDeviceArchived(i, TRUE)

UnarchiveDevice == \E i \in Archivable(devices) : SetDeviceArchived(i, FALSE)

ArchiveOrganization == \E i \in Archivable(orgs) : SetOrganizationArchived(i, TRUE)

UnarchiveOrganization == \E i \in Archivable(orgs) : SetOrganizationArchived(i, FALSE)

ListInit ==
    /\ now = FirstInstant
    /\ tz = 0
    /\ \E seed \in Seeds :
          /\ devices = [n \in 1..seed[1] |-> SeedDevice(n)]
          /\ orgs = [n \in 1..seed[2] |-> SeedOrganization(n)]
          /\ requests = SeedRequests(seed[3])
    /\ view = NoView
    /\ resp = NoResp
    /\ clients = <<>>
    /\ issued = <<>>
    /\ hook = NoHook
    /\ net = {}

ListNext ==
    \/ ArchiveDevice
    \/ UnarchiveDevice
    \/ ArchiveOrganization
    \/ UnarchiveOrganization
    \/ ListDevices
    \/ ListOrganizations
    \/ ListExpiredDevices
    \/ ListServiceRequests

\* Paginated list calls against a seeded store whose rows are archived and
\* unarchived between the calls
ListSpec == ListInit /\ [][ListNext]_vars

-----------------------------------------------------------------------------
(* Actions: service request creation *)

\* The zone offsets of the browsers: UTC, and half a day ahead of UTC
ZoneOffsets == {0, MsPerDay \div 2}

TicketOrganizations ==
    <<OrganizationRow(Uuid(<<"a","1","b","2">>, 1),
                      [name |-> <<"A","c","m","e">>, email |-> NULL, country |-> NULL]),
      OrganizationRow(Uuid(<<"c","3","d","4">>, 2),
                      [name |-> <<"A","c","m","e">>, email |-> NULL, country |-> NULL])>>

TicketDevices ==
    <<DeviceRow(Uuid(<<"e","5","f","6">>, 1),
                [company_id |-> Uuid(<<"a","1","b","2">>, 1),
                 device_name |-> <<"A","B","C","D","E","F">>,
                 amc_id |-> NULL, amc_end_date |-> NULL]),
      DeviceRow(Uuid(<<"0","7","a","8">>, 2),
                [company_id |-> Uuid(<<"c","3","d","4">>, 2),
                 device_name |-> <<"X","Y","Z">>,
                 amc_id |-> NULL, amc_end_date |-> NULL])>>

\* createServiceRequest up to its second await: generateTicketNumber has
\* counted the day's rows and built the ticket number.  `after` is the number
\* of creations that had completed when this one began.
BeginCreate ==
    /\ Len(clients) < MaxClients
    /\ Len(issued) + Len(clients) < MaxCreations
    /\ \E d \in 1..Len(devices) :
          LET serviceRequestData ==
                  [organization_id |-> devices[d].company_id,
                   device_id |-> devices[d].id,
                   service_type |-> "repair", date_of_service |-> NULL]
              ticketNo ==
                  generateTicketNumber(requests, serviceRequestData.organization_id,
                                       serviceRequestData.device_id, now, tz)
          IN  clients' = Append(clients,
                                [data |-> serviceRequestData, ticketNo |-> ticketNo,
                                 generatedAt |-> now, after |-> Len(issued),
                                 counted |-> requests])
    /\ UNCHANGED <<now, tz, devices, orgs, requests, view, resp, issued, hook, net>>

\* createServiceRequest from the insert on: the row is stored unless the
\* unique constraint on ticket_no rejects it, in which case the call throws
FinishCreate ==
    \E c \in 1..Len(clients) :
        LET call == clients[c]
            free == TicketNoIsFree(requests, call.ticketNo)
        IN  /\ requests' = IF free
                           THEN Append(requests,
                                       InsertedRequest(requests, call.data,
                                                       call.ticketNo, now))
                           ELSE requests
            /\ issued' = Append(issued,
                                [data |-> call.data, ticketNo |-> call.ticketNo,
                                 generatedAt |-> call.generatedAt,
                                 after |-> call.after, counted |-> call.counted,
                                 insertedAt |-> now, stored |-> free])
            /\ clients' = [i \in 1..(Len(clients) - 1) |->
                              IF i < c THEN clients[i] ELSE clients[i + 1]]
            /\ UNCHANGED <<now, tz, devices, orgs, view, resp, hook, net>>

TicketInit ==
    /\ now = FirstInstant
    /\ tz \in ZoneOffsets
    /\ devices = TicketDevices
    /\ orgs = TicketOrganizations
    /\ requests = <<>>
    /\ view = NoView
    /\ resp = NoResp
    /\ clients = <<>>
    /\ issued = <<>>
    /\ hook = NoHook
    /\ net = {}

\* Time passes, within the day the creations are watched for
TicketTick ==
    /\ now < FirstInstant + MsPerDay - 1
    /\ Tick

TicketNext ==
    \/ TicketTick
    \/ BeginCreate
    \/ FinishCreate

\* Service requests created from browsers of one time zone while time passes
TicketSpec == TicketInit /\ [][TicketNext]_vars

-----------------------------------------------------------------------------
(* The data-fetching hooks *)

HookKinds == {"usePaginatedOrganizations", "useServiceRequests", "useCompanyDevices"}

\* The pagination a page passes to its hook
HookPaginations == {[page |-> Some(p), pageSize |-> Some(2)] : p \in 1..2}

\* The inputs a hook can be given: company id, filters and pagination
HookInputs(kind) ==
    CASE kind = "usePaginatedOrganizations" ->
           {[companyId |-> NULL, filters |-> f, pagination |-> Some(p)] :
               f \in {NoOrganizationFilters,
                      [NoOrganizationFilters EXCEPT !.archived = Some(TRUE)]},
               p \in HookPaginations}
      [] kind = "useServiceRequests" ->
           {[companyId |-> NULL, filters |-> f, pagination |-> Some(p)] :
               f \in {NoServiceRequestFilters,
                      [NoServiceRequestFilters EXCEPT !.status = Some("pending")]},
               p \in HookPaginations}
      [] kind = "useCompanyDevices" ->
           {[companyId |-> c, filters |-> NoDeviceFilters, pagination |-> Some(p)] :
               c \in {NULL, Some(Uuid(<<"a","1","b","2">>, 1))},
               p \in HookPaginations}

\* The state a hook's useState / useRef calls start from
HookInitial(kind, inputs) ==
    [kind |-> kind, phase |-> "constructed", inputs |-> inputs,
     data |-> CASE kind = "usePaginatedOrganizations" ->
                     Envelope(<<>>, 0, 1, DefaultPageSize)
                [] kind = "useServiceRequests" -> Envelope(<<>>, 0, 1, 10)
                [] kind = "useCompanyDevices" ->
                     [data |-> <<>>, totalCount |-> 0, totalPages |-> 0],
     loading |-> (kind = "useCompanyDevices"),
     error |-> NULL,
     controllers |-> <<>>, ref |-> 0, issued |-> 0]

\* abortControllerRef.current?.abort(): controllers holds, for every
\* AbortController created so far, whether it has been aborted; ref is the
\* position of abortControllerRef.current (0 for null)
AbortCurrent(h) ==
    IF h.ref = 0 THEN h ELSE [h EXCEPT !.controllers[h.ref] = TRUE]

CurrentAborted(h) == h.ref # 0 /\ h.controllers[h.ref]

\* The request a fetch sends: what the service call was given
RequestOf(h) ==
    [id |-> h.issued + 1, kind |-> h.kind, inputs |-> h.inputs]

\* The fetch function of a hook up to its await: the state it sets and the
\* request it sends (none when useCompanyDevices has no company id)
fetchStart(h) ==
    CASE h.kind = "usePaginatedOrganizations" ->
           LET aborted == AbortCurrent(h)
               created == Append(aborted.controllers, FALSE)
           IN  [hook |-> [aborted EXCEPT !.controllers = created,
                                         !.ref = Len(created),
                                         !.loading = TRUE, !.error = NULL,
                                         !.issued = @ + 1],
                sent |-> {RequestOf(h)}]
      [] h.kind = "useServiceRequests" ->
           [hook |-> [h EXCEPT !.loading = TRUE, !.error = NULL, !.issued = @ + 1],
            sent |-> {RequestOf(h)}]
      [] h.kind = "useCompanyDevices" ->
           IF ~TruthyId(h.inputs.companyId)
           THEN [hook |-> [h EXCEPT !.data = [data |-> <<>>, totalCount |-> 0,
                                              totalPages |-> 0],
                                    !.loading = FALSE],
                 sent |-> {}]
           ELSE [hook |-> [h EXCEPT !.loading = TRUE, !.error = NULL,
                                    !.issued = @ + 1],
                 sent |-> {RequestOf(h)}]

\* A fetch function that sends its request again when the query fails
fetchSettledWithRetry(h, request, outcome) ==
    IF outcome.ok
    THEN [hook |-> [h EXCEPT !.data = outcome.result, !.loading = FALSE], sent |-> {}]
    ELSE [hook |-> [h EXCEPT !.issued = @ + 1],
          sent |-> {[request EXCEPT !.id = h.issued + 1]}]

\* The fetch function of a hook from its await on (try / catch / finally),
\* run when the response to `request` arrives: the state it sets and the
\* requests it sends
fetchSettled(h, request, outcome) ==
    CASE h.kind = "usePaginatedOrganizations" ->
           IF CurrentAborted(h) THEN [hook |-> h, sent |-> {}]
           ELSE IF outcome.ok
           THEN [hook |-> [h EXCEPT !.data = outcome.result, !.loading = FALSE],
                 sent |-> {}]
           ELSE [hook |-> [h EXCEPT !.error = Some(outcome.message),
                                    !.loading = FALSE],
                 sent |-> {}]
      [] h.kind = "useServiceRequests" ->
           IF outcome.ok
           THEN [hook |-> [h EXCEPT !.data = outcome.result, !.loading = FALSE],
                 sent |-> {}]
           ELSE [hook |-> [h EXCEPT !.error = Some(outcome.message),
                                    !.loading = FALSE],
                 sent |-> {}]
      [] h.kind = "useCompanyDevices" ->
           IF outcome.ok
           THEN [hook |-> [h EXCEPT !.data = [data |-> outcome.result.data,
                                              totalCount |-> outcome.result.totalCount,
                                              totalPages |-> outcome.result.totalPages],
                                    !.loading = FALSE],
                 sent |-> {}]
           ELSE [hook |-> [h EXCEPT !.error = Some(outcome.message),
                                    !.loading = FALSE],
                 sent |-> {}]

\* What the query service answers to a request when the query succeeds
ServiceResult(request) ==
    CASE request.kind = "usePaginatedOrganizations" ->
           organizationGetPaginated(orgs, request.inputs.filters,
                                    request.inputs.pagination)
      [] request.kind = "useServiceRequests" ->
           LET pagination == Val(request.inputs.pagination)
           IN  ServiceRequestService_getServiceRequests(
                   requests, request.inputs.filters,
                   [page |-> Val(pagination.page), pageSize |-> Val(pagination.pageSize)])
      [] request.kind = "useCompanyDevices" ->
           deviceGetPaginated(devices,
                              [request.inputs.filters EXCEPT
                                  !.company_id = request.inputs.companyId],
                              request.inputs.pagination)

\* The message a failed query is thrown with
FailureMessage(kind) ==
    CASE kind = "usePaginatedOrganizations" -> "Failed to fetch organizations"
      [] kind = "useServiceRequests" -> "Failed to fetch service requests"
      [] kind = "useCompanyDevices" -> "An error occurred"

-----------------------------------------------------------------------------
(* Actions: a fetch hook on a page *)

\* The effect runs for the first time: the hook fetches on mount
Mount ==
    /\ hook.phase = "constructed"
    /\ LET out == fetchStart(hook)
       IN  /\ hook' = [out.hook EXCEPT !.phase = "mounted"]
           /\ net' = net \cup out.sent
    /\ UNCHANGED <<now, tz, devices, orgs, requests, view, resp, clients, issued>>

\* The page renders the hook with other arguments (the debounced filters, the
\* pagination or the company id changed): the effect's cleanup runs, then the
\* effect fetches again
Rerender ==
    /\ hook.phase = "mounted"
    /\ hook.kind \in {"usePaginatedOrganizations", "useCompanyDevices"}
    /\ hook.issued < MaxRequests
    /\ \E inputs \in HookInputs(hook.kind) \ {hook.inputs} :
          LET cleaned == IF hook.kind = "usePaginatedOrganizations"
                         THEN AbortCurrent(hook) ELSE hook
              out == fetchStart([cleaned EXCEPT !.inputs = inputs])
          IN  /\ hook' = out.hook
              /\ net' = net \cup out.sent
    /\ UNCHANGED <<now, tz, devices, orgs, requests, view, resp, clients, issued>>

\* useServiceRequests.updateFilters(newFilters): the filters are merged, the
\* page goes back to 1 and the effect fetches again
UpdateFilters ==
    /\ hook.phase = "mounted"
    /\ hook.kind = "useServiceRequests"
    /\ hook.issued < MaxRequests
    /\ \E status \in {"pending", "completed"} :
          LET filters == [hook.inputs.filters EXCEPT !.status = Some(status)]
              pagination == [Val(hook.inputs.pagination) EXCEPT !.page = Some(1)]
              out == fetchStart([hook EXCEPT !.inputs.filters = filters,
                                             !.inputs.pagination = Some(pagination)])
          IN  /\ hook' = out.hook
              /\ net' = net \cup out.sent
    /\ UNCHANGED <<now, tz, devices, orgs, requests, view, resp, clients, issued>>

\* useServiceRequests.updatePagination(newPagination)
UpdatePagination ==
    /\ hook.phase = "mounted"
    /\ hook.kind = "useServiceRequests"
    /\ hook.issued < MaxRequests
    /\ \E page \in 1..2 :
          LET pagination == [Val(hook.inputs.pagination) EXCEPT !.page = Some(page)]
              out == fetchStart([hook EXCEPT !.inputs.pagination = Some(pagination)])
          IN  /\ hook' = out.hook
              /\ net' = net \cup out.sent
    /\ UNCHANGED <<now, tz, devices, orgs, requests, view, resp, clients, issued>>

\* The page calls the refetch / refresh function the hook returns
Refetch ==
    /\ hook.phase = "mounted"
    /\ hook.issued < MaxRequests
    /\ LET out == fetchStart(hook)
       IN  /\ hook' = out.hook
           /\ net' = net \cup out.sent
    /\ UNCHANGED <<now, tz, devices, orgs, requests, view, resp, clients, issued>>

\* The response to a request in flight arrives, in any order: the query
\* succeeded or failed.  React drops the state updates of an unmounted hook.
Respond ==
    \E request \in net :
        \E ok \in BOOLEAN :
            LET outcome == IF ok THEN [ok |-> TRUE, result |-> ServiceResult(request)]
                           ELSE [ok |-> FALSE, message |-> FailureMessage(request.kind)]
                out == fetchSettled(hook, request, outcome)
            IN  /\ hook' = IF hook.phase = "mounted" THEN out.hook
                           ELSE [hook EXCEPT !.issued = out.hook.issued]
                /\ net' = (net \ {request}) \cup out.sent
                /\ UNCHANGED <<now, tz, devices, orgs, requests, view, resp, clients,
                               issued>>

\* The page goes away: the effect's cleanup runs for the last time
Unmount ==
    /\ hook.phase = "mounted"
    /\ hook' = [(IF hook.kind = "usePaginatedOrganizations"
                 THEN AbortCurrent(hook) ELSE hook) EXCEPT !.phase = "unmounted"]
    /\ UNCHANGED <<now, tz, devices, orgs, requests, view, resp, clients, issued, net>>

HookInit ==
    /\ now = FirstInstant
    /\ tz = 0
    /\ devices = [n \in 1..3 |-> SeedDevice(n)]
    /\ orgs = [n \in 1..3 |-> SeedOrganization(n)]
    /\ requests = SeedRequests(3)
    /\ view = NoView
    /\ resp = NoResp
    /\ clients = <<>>
    /\ issued = <<>>
    /\ \E kind \in HookKinds : \E inputs \in HookInputs(kind) :
          hook = HookInitial(kind, inputs)
    /\ net = {}

HookNext ==
    \/ Mount
    \/ Rerender
    \/ UpdateFilters
    \/ UpdatePagination
    \/ Refetch
    \/ Respond
    \/ Unmount

\* One fetch hook on a page, its requests answered in any order
HookSpec == HookInit /\ [][HookNext]_vars

-----------------------------------------------------------------------------
(* The pages: forms, row actions and the mutations they call *)

\* /^\S+@\S+$/.test(value)
EmailPattern(value) ==
    /\ \A k \in 1..Len(value) : value[k] # " "
    /\ \E i \in 2..(Len(value) - 1) : value[i] = "@"

\* Organization form rules that do not look at the email
organizationFormErrorsNameOnly(values) ==
    {field \in {"name"} : Len(values.name) < 2}

\* The fields the validate rules of the organization form reject
organizationFormErrors(values) ==
    {field \in {"name", "email"} :
        \/ field = "name" /\ Len(values.name) < 2
        \/ field = "email" /\ values.email # <<>> /\ ~EmailPattern(values.email)}

\* The fields the validate rules of the device form reject
deviceFormErrors(values) ==
    {field \in {"device_name"} : values.device_name = <<>>}

\* The fields validationRules of the service request form rejects: the
\* required fields unless forceCreate is checked, and a service date whose
\* local calendar day is before today's
validationRules(values, forceCreate, t, offset) ==
    {field \in {"product", "serial_no", "service_details", "organization_id",
                "device_id", "date_of_service"} :
        \/ field = "product" /\ ~forceCreate /\ values.product = <<>>
        \/ field = "serial_no" /\ ~forceCreate /\ values.serial_no = <<>>
        \/ field = "service_details" /\ ~forceCreate /\ values.service_details = <<>>
        \/ field = "organization_id" /\ ~forceCreate /\ values.organization_id = NULL
        \/ field = "device_id" /\ ~forceCreate /\ values.device_id = NULL
        \/ field = "date_of_service" /\ values.date_of_service # NULL
             /\ LocalDate(Val(values.date_of_service), offset) < LocalDate(t, offset)}

\* The service engineers useServiceEngineers() returns
ServiceEngineers ==
    <<[id |-> "eng-1", expertise |-> {"repair", "service"}],
      [id |-> "eng-2", expertise |-> {"calibration"}]>>

\* AssignEngineerModal: the engineers the Select of the modal offers
compatibleEngineers(serviceEngineers, serviceRequest) ==
    {e \in 1..Len(serviceEngineers) :
        serviceRequest.service_type \in serviceEngineers[e].expertise}

\* ServiceRequestForm: the engineers the Select of the edit form offers
formEngineerOptions(serviceEngineers) == 1..Len(serviceEngineers)

\* The position of the row with the given id
RowWithId(table, id) == CHOOSE i \in 1..Len(table) : table[i].id = id

\* getById: select('*').eq('id', id).single(), the row or null when no row has
\* the id
getById(table, id) ==
    IF \E i \in 1..Len(table) : table[i].id = id
    THEN Some(table[RowWithId(table, id)])
    ELSE NULL

\* No row: the id of a call that creates one
NoId == Uuid(<<>>, 0)

\* organizationService.create / update / archive / unarchive: the table after
\* the call
organizationService_mutate(table, call) ==
    CASE call.mutation = "create" ->
           Append(table, OrganizationRow(Uuid(<<"a","1","b","2">>, Len(table) + 1),
                                         call.data))
      [] call.mutation = "update" ->
           [table EXCEPT ![RowWithId(table, call.id)].name = call.data.name,
                         ![RowWithId(table, call.id)].email = call.data.email,
                         ![RowWithId(table, call.id)].country = call.data.country]
      [] call.mutation \in {"archive", "unarchive"} ->
           [table EXCEPT ![RowWithId(table, call.id)].archived =
                            (call.mutation = "archive")]

\* deviceService.create / update / archive / unarchive: the table after the
\* call
deviceService_mutate(table, call) ==
    CASE call.mutation = "create" ->
           Append(table, DeviceRow(Uuid(<<"e","5","f","6">>, Len(table) + 1),
                                   call.data))
      [] call.mutation = "update" ->
           [table EXCEPT ![RowWithId(table, call.id)].device_name =
                            call.data.device_name,
                         ![RowWithId(table, call.id)].amc_id = call.data.amc_id,
                         ![RowWithId(table, call.id)].amc_end_date =
                            call.data.amc_end_date]
      [] call.mutation \in {"archive", "unarchive"} ->
           [table EXCEPT ![RowWithId(table, call.id)].archived =
                            (call.mutation = "archive")]

\* ServiceRequestService.createServiceRequest / updateServiceRequest /
\* assignServiceEngineer / updateServiceRequestStatus: the table after the call
ServiceRequestService_mutate(table, call, t, offset) ==
    CASE call.mutation = "create" ->
           Append(table,
                  InsertedRequest(table, call.data,
                                  generateTicketNumber(table,
                                                       call.data.organization_id,
                                                       call.data.device_id,
                                                       t, offset),
                                  t))
      [] call.mutation = "update" ->
           [table EXCEPT ![RowWithId(table, call.id)].date_of_service =
                            timestamptz(call.data.date_of_service),
                         ![RowWithId(table, call.id)].service_engineer =
                            call.data.service_engineer,
                         ![RowWithId(table, call.id)].status = call.data.status]
      [] call.mutation = "assign" ->
           [table EXCEPT ![RowWithId(table, call.id)].service_engineer =
                            call.data.service_engineer]
      [] call.mutation = "status" ->
           [table EXCEPT ![RowWithId(table, call.id)].status = call.data.status]

-----------------------------------------------------------------------------
(* Actions: a page, its list hook and its handlers *)

\* The list hook a page renders and the inputs it first gives it
PageHook(page) ==
    CASE page = "OrganizationPage" ->
           HookInitial("usePaginatedOrganizations",
                       [companyId |-> NULL,
                        filters |-> [NoOrganizationFilters EXCEPT
                                        !.archived = Some(FALSE)],
                        pagination |-> Some([page |-> Some(1), pageSize |-> Some(DefaultPageSize)])])
      [] page = "DeviceManagement" ->
           HookInitial("useCompanyDevices",
                       [companyId |-> Some(Uuid(<<"a","1","b","2">>, 1)),
                        filters |-> [NoDeviceFilters EXCEPT
                                        !.include_archived = Some(FALSE)],
                        pagination |-> Some([page |-> Some(1), pageSize |-> Some(10)])])
      [] page = "ServiceRequestComponent" ->
           HookInitial("useServiceRequests",
                       [companyId |-> NULL, filters |-> NoServiceRequestFilters,
                        pagination |-> Some([page |-> Some(1), pageSize |-> Some(10)])])

\* A handler may start: the page is mounted, no other handler is waiting for
\* its mutation (the handlers are followed one at a time), and the model's
\* bounds allow another mutation and the refetch that may follow it
CanAct(page) ==
    /\ view.page = page
    /\ hook.phase = "mounted"
    /\ clients = <<>>
    /\ Len(issued) < MaxMutations
    /\ hook.issued < MaxRequests

\* A handler reaches its await: the mutation call it waits for
Await(handler, service, mutation, id, data) ==
    clients' = Append(clients, [page |-> view.page, handler |-> handler,
                                service |-> service, mutation |-> mutation,
                                id |-> id, data |-> data])

\* form.onSubmit(handleSubmit): the form is validated, and handleSubmit runs
\* only when no rule rejects a field
Validated(values, forceCreate, errors) ==
    view' = [view EXCEPT !.form = Some(values), !.forceCreate = forceCreate,
                         !.errors = errors]

\* OrganizationPage: the form is submitted (editing = 0: no organization is
\* being edited)
OrganizationPage_handleSubmit ==
    /\ CanAct("OrganizationPage")
    /\ \E values \in
             {[name |-> <<"A","c">>, email |-> <<>>, country |-> <<"I","n","d","i","a">>],
              [name |-> <<"A","c">>, email |-> <<"a","@","b">>, country |-> <<>>],
              [name |-> <<"A">>, email |-> <<>>, country |-> <<"U","K">>],
              [name |-> <<>>, email |-> <<"a","@","b">>, country |-> <<"U","K">>],
              [name |-> <<"A","c">>, email |-> <<"a","b">>, country |-> <<"U","K">>],
              [name |-> <<"A","c">>, email |-> <<"a"," ","@","b">>,
               country |-> <<"I","n","d","i","a">>]} :
       \E editing \in 0..Len(orgs) :
          LET errors == organizationFormErrors(values)
              data == [name |-> values.name, email |-> Some(values.email),
                       country |-> Some(values.country)]
          IN  /\ Validated(values, FALSE, errors)
              /\ IF errors # {} THEN UNCHANGED clients
                 ELSE IF editing # 0
                 THEN Await("handleSubmit", "organizationService", "update",
                            orgs[editing].id, data)
                 ELSE Await("handleSubmit", "organizationService", "create",
                            NoId, data)
    /\ UNCHANGED <<now, tz, devices, orgs, requests, resp, issued, hook, net>>

\* OrganizationPage: Archive is chosen for a listed organization and confirmed
OrganizationPage_handleArchive ==
    /\ CanAct("OrganizationPage")
    /\ \E i \in 1..Len(orgs) :
          /\ ~orgs[i].archived
          /\ Await("handleArchive", "organizationService", "archive", orgs[i].id,
                   [archived |-> TRUE])
    /\ UNCHANGED <<now, tz, devices, orgs, requests, view, resp, issued, hook, net>>

\* OrganizationPage: Unarchive is chosen for a listed organization and confirmed
OrganizationPage_handleUnarchive ==
    /\ CanAct("OrganizationPage")
    /\ \E i \in 1..Len(orgs) :
          /\ orgs[i].archived
          /\ Await("handleUnarchive", "organizationService", "unarchive",
                   orgs[i].id, [archived |-> FALSE])
    /\ UNCHANGED <<now, tz, devices, orgs, requests, view, resp, issued, hook, net>>

\* DeviceManagement: the form is submitted (editing = 0: no device is being
\* edited).  Empty date strings are sent as null.
DeviceManagement_handleSubmit ==
    /\ CanAct("DeviceManagement")
    /\ \E values \in {[device_name |-> name, amc_id |-> <<>>, amc_end_date |-> end] :
                         name \in {<<>>, <<"A","B","C">>},
                         end \in {NULL, Some(StartDay)}} :
       \E editing \in 0..Len(devices) :
          LET errors == deviceFormErrors(values)
              processedValues ==
                  [company_id |-> Val(hook.inputs.companyId),
                   device_name |-> values.device_name,
                   amc_id |-> Some(values.amc_id),
                   amc_end_date |-> values.amc_end_date]
          IN  /\ Validated(values, FALSE, errors)
              /\ IF errors # {} THEN UNCHANGED clients
                 ELSE IF editing # 0
                 THEN Await("handleSubmit", "deviceService", "update",
                            devices[editing].id, processedValues)
                 ELSE Await("handleSubmit", "deviceService", "create", NoId,
                            processedValues)
    /\ UNCHANGED <<now, tz, devices, orgs, requests, resp, issued, hook, net>>

\* DeviceManagement: Archive is chosen for a listed device and confirmed
DeviceManagement_handleArchive ==
    /\ CanAct("DeviceManagement")
    /\ \E i \in 1..Len(devices) :
          /\ ~devices[i].archived
          /\ Await("handleArchive", "deviceService", "archive", devices[i].id,
                   [archived |-> TRUE])
    /\ UNCHANGED <<now, tz, devices, orgs, requests, view, resp, issued, hook, net>>

\* DeviceManagement: Unarchive is chosen for a listed device
DeviceManagement_handleUnarchive ==
    /\ CanAct("DeviceManagement")
    /\ \E i \in 1..Len(devices) :
          /\ devices[i].archived
          /\ Await("handleUnarchive", "deviceService", "unarchive", devices[i].id,
                   [archived |-> FALSE])
    /\ UNCHANGED <<now, tz, devices, orgs, requests, view, resp, issued, hook, net>>

\* ServiceRequestForm in create mode: the form is submitted with or without an
\* organization and a product, and with no service date, yesterday or today
\* picked (the picker yields the local midnight of the day)
ServiceRequestForm_handleSubmit_create ==
    /\ CanAct("ServiceRequestComponent")
    /\ \E values \in
             {[product |-> product, serial_no |-> <<"S","N">>,
               service_details |-> <<"d">>, organization_id |-> organization,
               device_id |-> Some(devices[1].id), service_type |-> "repair",
               date_of_service |-> IF day = 0 THEN NULL
                                   ELSE Some(DateParse(day) - tz),
               service_engineer |-> NULL, status |-> "pending"] :
                 product \in {<<>>, <<"P">>},
                 organization \in {NULL, Some(devices[1].company_id)},
                 day \in {0, LocalDate(now, tz) - 1, LocalDate(now, tz)}} :
       \E forceCreate \in BOOLEAN :
          LET errors == validationRules(values, forceCreate, now, tz)
              formattedDate == IF values.date_of_service = NULL THEN NULL
                               ELSE Some([date |-> ToISODate(Val(values.date_of_service))])
              createData == [organization_id |-> IF values.organization_id = NULL
                                                 THEN NoId
                                                 ELSE Val(values.organization_id),
                             device_id |-> Val(values.device_id),
                             service_type |-> values.service_type,
                             date_of_service |-> formattedDate]
          IN  /\ Validated(values, forceCreate, errors)
              /\ IF errors # {} THEN UNCHANGED clients
                 ELSE Await("handleSubmit", "ServiceRequestService", "create", NoId,
                            createData)
    /\ UNCHANGED <<now, tz, devices, orgs, requests, resp, issued, hook, net>>

\* ServiceRequestForm in edit mode: the form, filled from a listed request, is
\* submitted with the editable fields changed
ServiceRequestForm_handleSubmit_update ==
    /\ CanAct("ServiceRequestComponent")
    /\ \E r \in 1..Len(requests) :
       \E engineer \in {0} \cup formEngineerOptions(ServiceEngineers) :
       \E status \in {"pending", "completed"} :
       \E day \in {0, LocalDate(now, tz) - 1, LocalDate(now, tz)} :
          LET serviceRequest == requests[r]
              values == [product |-> <<"P">>, serial_no |-> <<"S","N">>,
                         service_details |-> <<"d">>,
                         organization_id |-> Some(serviceRequest.organization_id),
                         device_id |-> Some(serviceRequest.device_id),
                         service_type |-> serviceRequest.service_type,
                         date_of_service |-> IF day = 0 THEN NULL
                                             ELSE Some(DateParse(day) - tz),
                         service_engineer |-> IF engineer = 0 THEN NULL
                                              ELSE Some(ServiceEngineers[engineer].id),
                         status |-> status]
              errors == validationRules(values, FALSE, now, tz)
              updateData == [date_of_service |->
                                 IF values.date_of_service = NULL THEN NULL
                                 ELSE Some([date |-> ToISODate(Val(values.date_of_service))]),
                             service_engineer |-> values.service_engineer,
                             status |-> values.status]
          IN  /\ Validated(values, FALSE, errors)
              /\ IF errors # {} THEN UNCHANGED clients
                 ELSE Await("handleSubmit", "ServiceRequestService", "update",
                            serviceRequest.id, updateData)
    /\ UNCHANGED <<now, tz, devices, orgs, requests, resp, issued, hook, net>>

\* AssignEngineerModal.handleAssign for a listed request: an engineer the
\* Select offers is selected and Assign is pressed
AssignEngineerModal_handleAssign ==
    /\ CanAct("ServiceRequestComponent")
    /\ \E r \in 1..Len(requests) :
       \E engineer \in compatibleEngineers(ServiceEngineers, requests[r]) :
          Await("handleAssign", "ServiceRequestService", "assign", requests[r].id,
                [service_engineer |-> Some(ServiceEngineers[engineer].id)])
    /\ UNCHANGED <<now, tz, devices, orgs, requests, view, resp, issued, hook, net>>

\* ServiceRequestComponent.handleStatusUpdate for a listed request
ServiceRequestComponent_handleStatusUpdate ==
    /\ CanAct("ServiceRequestComponent")
    /\ \E r \in 1..Len(requests) : \E status \in {"pending", "completed", "cancelled"} :
          /\ requests[r].status # status
          /\ Await("handleStatusUpdate", "ServiceRequestService", "status",
                   requests[r].id, [status |-> status])
    /\ UNCHANGED <<now, tz, devices, orgs, requests, view, resp, issued, hook, net>>

\* The store can run the mutation: a service request needs the ids of its
\* organization and device, and a ticket number no row holds
Accepted(call) ==
    (call.service = "ServiceRequestService" /\ call.mutation = "create") =>
        /\ call.data.organization_id # NoId
        /\ TicketNoIsFree(requests,
                          generateTicketNumber(requests, call.data.organization_id,
                                               call.data.device_id, now, tz))

\* Handlers that call the refetch only after the form has been saved
refetchesAfterSubmitOnly(call, ok) == ok /\ call.handler = "handleSubmit"

\* The handlers as they would be if the refetch did not depend on the result
refetchesAlways(call, ok) ==
    call.service \in {"organizationService", "deviceService", "ServiceRequestService"}

\* Each handler after its await: whether it goes on to call the refetch (or
\* refresh) of the page's list hook.  The mutation functions of the
\* organization and device hooks return null when the call failed and the
\* handlers refetch `if (result)`; the service request actions rethrow, so the
\* statements after the await are skipped.
refetchesAfter(call, ok) ==
    CASE call.service \in {"organizationService", "deviceService"} -> ok
      [] call.service = "ServiceRequestService" -> ok

\* The form after a handler has finished: a saved organization form is reset,
\* and a saved service request form is closed
formAfter(call, ok) ==
    IF ok /\ call.handler = "handleSubmit"
          /\ call.service \in {"organizationService", "ServiceRequestService"}
    THEN [view EXCEPT !.form = NULL, !.errors = {}]
    ELSE view

\* The store answers a mutation call (it ran the mutation, or it failed) and
\* the handler that awaited it runs to its end
Settle ==
    \E c \in 1..Len(clients) : \E ok \in BOOLEAN :
        LET call == clients[c]
            out == IF refetchesAfter(call, ok) THEN fetchStart(hook)
                   ELSE [hook |-> hook, sent |-> {}]
        IN  /\ ok => Accepted(call)
            /\ orgs' = IF ok /\ call.service = "organizationService"
                       THEN organizationService_mutate(orgs, call) ELSE orgs
            /\ devices' = IF ok /\ call.service = "deviceService"
                          THEN deviceService_mutate(devices, call) ELSE devices
            /\ requests' = IF ok /\ call.service = "ServiceRequestService"
                           THEN ServiceRequestService_mutate(requests, call, now, tz)
                           ELSE requests
            /\ issued' = Append(issued, ok)
            /\ clients' = [i \in 1..(Len(clients) - 1) |->
                              IF i < c THEN clients[i] ELSE clients[i + 1]]
            /\ view' = formAfter(call, ok)
            /\ hook' = out.hook
            /\ net' = net \cup out.sent
            /\ resp' = IF ok /\ call.mutation = "create"
                       THEN LET table == CASE call.service = "organizationService" -> orgs'
                                           [] call.service = "deviceService" -> devices'
                                           [] call.service = "ServiceRequestService" ->
                                                requests'
                            IN  [call |-> "create", service |-> call.service,
                                 submitted |-> call.data,
                                 returned |-> table[Len(table)], fetched |-> NULL]
                       ELSE resp
            /\ UNCHANGED <<now, tz>>

\* The entity a create call has returned is fetched by its id
FetchCreated ==
    /\ resp.call = "create"
    /\ resp.fetched = NULL
    /\ resp' = [resp EXCEPT !.fetched =
                    getById(CASE resp.service = "organizationService" -> orgs
                              [] resp.service = "deviceService" -> devices
                              [] resp.service = "ServiceRequestService" -> requests,
                            resp.returned.id)]
    /\ UNCHANGED <<now, tz, devices, orgs, requests, view, clients, issued, hook, net>>

PageInit ==
    /\ now = FirstInstant
    /\ tz \in ZoneOffsets
    /\ devices = [n \in 1..2 |-> [SeedDevice(n) EXCEPT !.archived = (n = 1)]]
    /\ orgs = [n \in 1..2 |-> [SeedOrganization(n) EXCEPT !.archived = (n = 1)]]
    /\ requests = SeedRequests(2)
    /\ \E page \in {"OrganizationPage", "DeviceManagement", "ServiceRequestComponent"} :
          /\ view = [page |-> page, form |-> NULL, forceCreate |-> FALSE, errors |-> {}]
          /\ hook = PageHook(page)
    /\ resp = NoResp
    /\ clients = <<>>
    /\ issued = <<>>
    /\ net = {}

PageNext ==
    \/ Mount
    \/ Respond
    \/ OrganizationPage_handleSubmit
    \/ OrganizationPage_handleArchive
    \/ OrganizationPage_handleUnarchive
    \/ DeviceManagement_handleSubmit
    \/ DeviceManagement_handleArchive
    \/ DeviceManagement_handleUnarchive
    \/ ServiceRequestForm_handleSubmit_create
    \/ ServiceRequestForm_handleSubmit_update
    \/ AssignEngineerModal_handleAssign
    \/ ServiceRequestComponent_handleStatusUpdate
    \/ Settle
    \/ FetchCreated

\* One page with its list hook, its forms and its row actions
PageSpec == PageInit /\ [][PageNext]_vars

-----------------------------------------------------------------------------
(* Sign-in: the login form, the auth service and the guarded routes *)

AdminAccessOnly ==
    <<"A","d","m","i","n"," ","a","c","c","e","s","s"," ","o","n","l","y">>
InvalidCredentials == <<"I","n","v","a","l","i","d">>

\* The accounts the backend's auth service knows, with the type of each
Accounts ==
    <<[email |-> <<"a","@","x">>, password |-> <<"p","a","s","s","w","o","r","d">>,
       user_type |-> "admin"],
      [email |-> <<"u","@","x">>, password |-> <<"p","a","s","s","w","o","r","d">>,
       user_type |-> "user"]>>

\* The fields the validate rules of loginForm reject
loginFormErrors(values) ==
    {field \in {"email", "password"} :
        \/ field = "email" /\ (values.email = <<>> \/ ~EmailPattern(values.email))
        \/ field = "password" /\ Len(values.password) < 8}

\* authService.login(credentials): the backend signs the account in, and the
\* post-login check rejects an account that is not an admin. The answer, and
\* the session the backend holds afterwards
authService_login(credentials) ==
    LET known == {a \in 1..Len(Accounts) :
                     /\ Accounts[a].email = credentials.email
                     /\ Accounts[a].password = credentials.password}
        a == CHOOSE a \in known : TRUE
    IN  IF known = {}
        THEN [user |-> NULL, error |-> Some(InvalidCredentials), session |-> NULL]
        ELSE IF Accounts[a].user_type # "admin"
        THEN [user |-> NULL, error |-> Some(AdminAccessOnly), session |-> NULL]
        ELSE [user |-> Some(Accounts[a]), error |-> NULL, session |-> Some(Accounts[a])]

\* useAuth(): the current user is the one the backend's session names
useAuth(session) == [user |-> session, isLoading |-> FALSE]

\* ProtectedRoute: what is shown in place of its children
ProtectedRoute(auth, children) ==
    IF auth.isLoading THEN [location |-> "/admin/dashboard", rendered |-> "Loader"]
    ELSE IF auth.user = NULL THEN [location |-> "/admin/login", rendered |-> "AdminLogin"]
    ELSE children

\* PublicRoute: what is shown in place of its children
PublicRoute(auth, children) ==
    IF auth.isLoading THEN [location |-> "/admin/login", rendered |-> "Loader"]
    ELSE IF auth.user # NULL
    THEN [location |-> "/admin/dashboard", rendered |-> "Dashboard"]
    ELSE children

\* The paths the browser opens, and the pages nested under /admin
Paths == {"/admin/login", "/admin/dashboard", "/admin/devices"}
AdminPages == {"Dashboard", "Devices"}

\* <Routes>: the location and the page shown for a path
Routes(path, auth) ==
    IF path \in {"/admin/dashboard", "/admin/devices"}
    THEN LET page == IF path = "/admin/devices" THEN "Devices" ELSE "Dashboard"
             shown == ProtectedRoute(auth, [location |-> path, rendered |-> page])
         IN  IF shown.rendered = "AdminLogin"
             THEN PublicRoute(auth, [location |-> "/admin/login", rendered |-> "AdminLogin"])
             ELSE shown
    ELSE LET shown == PublicRoute(auth, [location |-> "/admin/login",
                                         rendered |-> "AdminLogin"])
         IN  IF shown.rendered = "Dashboard"
             THEN ProtectedRoute(auth, [location |-> "/admin/dashboard",
                                        rendered |-> "Dashboard"])
             ELSE shown

\* handleLogin that navigates whenever the service has answered
handleLoginAlwaysNavigating(response) ==
    [notification |-> "Login Successful", navigate |-> Some("/admin/dashboard")]

\* handleLogin after authService.login has answered: the notification it shows
\* and the path it navigates to
handleLogin(response) ==
    IF response.error # NULL
    THEN IF Contains(Val(response.error), AdminAccessOnly)
         THEN [notification |-> "Access Denied", navigate |-> NULL]
         ELSE [notification |-> "Login Failed", navigate |-> NULL]
    ELSE IF response.user # NULL
    THEN [notification |-> "Login Successful", navigate |-> Some("/admin/dashboard")]
    ELSE [notification |-> "", navigate |-> NULL]

-----------------------------------------------------------------------------
(* Actions: signing in and out *)

\* The browser opens a path of the application
Visit ==
    /\ clients = <<>>
    /\ \E path \in Paths :
          LET shown == Routes(path, hook)
          IN  view' = [view EXCEPT !.path = path, !.location = shown.location,
                                   !.rendered = shown.rendered]
    /\ UNCHANGED <<now, tz, devices, orgs, requests, resp, clients, issued, hook, net>>

\* AdminLogin: the login form is submitted; handleLogin awaits
\* authService.login when no rule rejects a field
AdminLogin_handleLogin ==
    /\ view.rendered = "AdminLogin"
    /\ clients = <<>>
    /\ Len(issued) < MaxLogins
    /\ \E values \in {[email |-> email, password |-> password] :
                         email \in {<<>>, <<"a","x">>, <<"n","@","x">>} \cup
                                   {Accounts[a].email : a \in 1..Len(Accounts)},
                         password \in {<<"p","w">>, <<"p","a","s","s","w","o","r","d">>}} :
          LET errors == loginFormErrors(values)
          IN  /\ view' = [view EXCEPT !.form = Some(values), !.errors = errors]
              /\ clients' = IF errors # {} THEN clients
                            ELSE Append(clients, [call |-> "login", credentials |-> values])
    /\ UNCHANGED <<now, tz, devices, orgs, requests, resp, issued, hook, net>>

\* authService.login answers and handleLogin runs to its end
LoginSettle ==
    /\ clients # <<>>
    /\ LET call == clients[1]
           response == authService_login(call.credentials)
           outcome == handleLogin(response)
           auth == useAuth(response.session)
           shown == IF outcome.navigate = NULL
                    THEN [location |-> view.location, rendered |-> view.rendered]
                    ELSE Routes(Val(outcome.navigate), auth)
       IN  /\ resp' = [call |-> "login", credentials |-> call.credentials,
                       user |-> response.user, error |-> response.error]
           /\ hook' = [hook EXCEPT !.user = auth.user]
           /\ view' = [view EXCEPT !.notification = outcome.notification,
                                   !.location = shown.location,
                                   !.rendered = shown.rendered]
           /\ issued' = Append(issued, response.error = NULL)
           /\ clients' = Tail(clients)
    /\ UNCHANGED <<now, tz, devices, orgs, requests, net>>

\* AdminLayout.handleLogout: the session ends and ProtectedRoute shows the
\* login page
AdminLayout_handleLogout ==
    /\ view.rendered \in AdminPages
    /\ LET auth == useAuth(NULL)
           shown == Routes(view.location, auth)
       IN  /\ hook' = [hook EXCEPT !.user = auth.user]
           /\ view' = [view EXCEPT !.notification = "Logged Out",
                                   !.location = shown.location,
                                   !.rendered = shown.rendered,
                                   !.form = NULL, !.errors = {}]
    /\ UNCHANGED <<now, tz, devices, orgs, requests, resp, clients, issued, net>>

AuthInit ==
    /\ now = FirstInstant
    /\ tz = 0
    /\ devices = <<>>
    /\ orgs = <<>>
    /\ requests = <<>>
    /\ \E session \in {NULL, Some(Accounts[1])}, path \in Paths :
          /\ hook = [kind |-> "AuthContext", user |-> useAuth(session).user,
                     isLoading |-> FALSE]
          /\ view = [page |-> "AdminLogin", path |-> path,
                     location |-> Routes(path, useAuth(session)).location,
                     rendered |-> Routes(path, useAuth(session)).rendered,
                     form |-> NULL, errors |-> {}, notification |-> ""]
    /\ resp = NoResp
    /\ clients = <<>>
    /\ issued = <<>>
    /\ net = {}

AuthNext ==
    \/ Visit
    \/ AdminLogin_handleLogin
    \/ LoginSettle
    \/ AdminLayout_handleLogout

\* Sign-ins and sign-outs of admin and non-admin accounts against the guarded
\* routes
AuthSpec == AuthInit /\ [][AuthNext]_vars

-----------------------------------------------------------------------------
(* The organization page: two list hooks side by side *)

Tabs == {"active", "archived"}

\* The n-th organization the page starts with: the newest one is archived and
\* the oldest one has another name
TabsOrganization(n) ==
    [OrganizationRow(Uuid(<<"a","1","b","2">>, n),
                     [name |-> IF n = 1 THEN <<"Z","e","d">> ELSE <<"A","c","m","e">>,
                      email |-> NULL, country |-> NULL])
        EXCEPT !.archived = (n = DefaultPageSize + 2)]

\* OrganizationPage: the filters and pagination it passes to the hook of a tab
TabInputs(shown, tab) ==
    [companyId |-> NULL,
     filters |-> [search |-> IF shown.searchQuery = <<>> THEN NULL
                             ELSE Some(shown.searchQuery),
                  archived |-> Some(tab = "archived")],
     pagination |-> Some([page |-> Some(IF tab = "active" THEN shown.activePage
                                        ELSE shown.archivedPage),
                          pageSize |-> Some(shown.pageSize)])]

\* A hook whose arguments changed in a render: the effect's cleanup aborts the
\* request in flight and the effect fetches for the new arguments
EffectOf(h, inputs) ==
    IF inputs = h.inputs THEN [hook |-> h, sent |-> {}]
    ELSE fetchStart([AbortCurrent(h) EXCEPT !.inputs = inputs])

\* The requests a hook sends, marked with the hook instance that sent them.
\* `answer` is the result of the query once the store has run it, kept until
\* the response arrives.
SentBy(tab, out) ==
    {[owner |-> tab, request |-> r, answer |-> NULL] : r \in out.sent}

\* The requests in flight after the store has run the queries of `served`
Evaluated(served) ==
    {IF sent \in served /\ sent.answer = NULL
     THEN [sent EXCEPT !.answer = Some(ServiceResult(sent.request))]
     ELSE sent : sent \in net}

\* The page renders with a new state: each hook runs its effect
Rendered(shown) ==
    LET out == [tab \in Tabs |-> EffectOf(hook[tab], TabInputs(shown, tab))]
    IN  /\ view' = [shown EXCEPT !.acted = @ + 1]
        /\ hook' = [tab \in Tabs |-> out[tab].hook]
        /\ net' = net \cup UNION {SentBy(tab, out[tab]) : tab \in Tabs}

\* refetchActive(); refetchArchived()
RefetchBoth ==
    LET out == [tab \in Tabs |-> fetchStart(hook[tab])]
    IN  /\ hook' = [tab \in Tabs |-> out[tab].hook]
        /\ net' = net \cup UNION {SentBy(tab, out[tab]) : tab \in Tabs}

\* The page is shown and the user may do one more thing
TabsMounted ==
    /\ \A tab \in Tabs : hook[tab].phase = "mounted"
    /\ view.acted < MaxTabActions

\* Hooks that keep their state in one place shared by all instances
CompletedShared(hooks, sent, outcome) ==
    [tab \in Tabs |-> fetchSettled(hooks[tab], sent.request, outcome).hook]

\* The hooks of the page after a response has arrived: the state setters the
\* fetch function calls are those of the instance that sent the request
Completed(hooks, sent, outcome) ==
    [hooks EXCEPT ![sent.owner] = fetchSettled(hooks[sent.owner], sent.request,
                                               outcome).hook]

-----------------------------------------------------------------------------
(* Actions: the organization page and its two tabs *)

\* The page mounts: the effect of each hook fetches
TabsMount ==
    /\ \A tab \in Tabs : hook[tab].phase = "constructed"
    /\ LET out == [tab \in Tabs |-> fetchStart(hook[tab])]
       IN  /\ hook' = [tab \in Tabs |-> [out[tab].hook EXCEPT !.phase = "mounted"]]
           /\ net' = net \cup UNION {SentBy(tab, out[tab]) : tab \in Tabs}
    /\ UNCHANGED <<now, tz, devices, orgs, requests, view, resp, clients, issued>>

\* The search box changes (and the debounce of the filters has run out)
OrganizationPage_setSearchQuery ==
    /\ TabsMounted
    /\ \E text \in {<<>>, <<"z","e">>} \ {view.searchQuery} :
          Rendered([view EXCEPT !.searchQuery = text])
    /\ UNCHANGED <<now, tz, devices, orgs, requests, resp, clients, issued>>

\* OrganizationPage.handleSearchReset
OrganizationPage_handleSearchReset ==
    /\ TabsMounted
    /\ view.searchQuery # <<>>
    /\ Rendered([view EXCEPT !.searchQuery = <<>>, !.activePage = 1,
                             !.archivedPage = 1])
    /\ UNCHANGED <<now, tz, devices, orgs, requests, resp, clients, issued>>

\* <Pagination onChange={setActivePage} /> and its twin of the archived tab:
\* a page of the ones the control of the open tab offers is chosen
OrganizationPage_setPage ==
    /\ TabsMounted
    /\ \E p \in 1..hook[view.activeTab].data.totalPages :
          /\ p # (IF view.activeTab = "active" THEN view.activePage
                  ELSE view.archivedPage)
          /\ Rendered(IF view.activeTab = "active"
                      THEN [view EXCEPT !.activePage = p]
                      ELSE [view EXCEPT !.archivedPage = p])
    /\ UNCHANGED <<now, tz, devices, orgs, requests, resp, clients, issued>>

\* OrganizationPage.handleTabChange
OrganizationPage_handleTabChange ==
    /\ TabsMounted
    /\ \E value \in Tabs \ {view.activeTab} :
          Rendered(IF value = "active"
                   THEN [view EXCEPT !.activeTab = value, !.activePage = 1]
                   ELSE [view EXCEPT !.activeTab = value, !.archivedPage = 1])
    /\ UNCHANGED <<now, tz, devices, orgs, requests, resp, clients, issued>>

\* OrganizationPage.handleRefresh
OrganizationPage_handleRefresh ==
    /\ TabsMounted
    /\ RefetchBoth
    /\ view' = [view EXCEPT !.acted = @ + 1]
    /\ UNCHANGED <<now, tz, devices, orgs, requests, resp, clients, issued>>

\* OrganizationPage.handleArchive / handleUnarchive up to the await: the first
\* organization the open tab lists is archived (active tab) or unarchived
\* (archived tab), and the dialog is confirmed
OrganizationPage_confirmArchive ==
    /\ TabsMounted
    /\ clients = <<>>
    /\ Len(issued) < MaxMutations
    /\ hook[view.activeTab].data.data # <<>>
    /\ LET org == hook[view.activeTab].data.data[1]
       IN  IF view.activeTab = "active"
           THEN Await("handleArchive", "organizationService", "archive", org.id,
                      [archived |-> TRUE])
           ELSE Await("handleUnarchive", "organizationService", "unarchive", org.id,
                      [archived |-> FALSE])
    /\ view' = [view EXCEPT !.acted = @ + 1]
    /\ UNCHANGED <<now, tz, devices, orgs, requests, resp, issued, hook, net>>

\* The store answers the archive or unarchive call, and the handler runs to
\* its end: on a result both lists are refetched.  The store ran the queries
\* of the list requests in flight before it ran the update, or it runs them
\* after it.
TabsSettle ==
    /\ clients # <<>>
    /\ \E ok \in BOOLEAN :
          /\ orgs' = IF ok THEN organizationService_mutate(orgs, clients[1]) ELSE orgs
          /\ issued' = Append(issued, ok)
          /\ clients' = Tail(clients)
          /\ resp' = [call |-> clients[1].mutation, at |-> now, filters |-> NULL,
                      pagination |-> NULL, result |-> Some(ok)]
          /\ IF ok
             THEN \E served \in {{}, net} :
                     LET out == [tab \in Tabs |-> fetchStart(hook[tab])]
                     IN  /\ hook' = [tab \in Tabs |-> out[tab].hook]
                         /\ net' = Evaluated(served)
                                      \cup UNION {SentBy(tab, out[tab]) : tab \in Tabs}
             ELSE UNCHANGED <<hook, net>>
    /\ UNCHANGED <<now, tz, devices, requests, view>>

\* The response to a request in flight of either hook arrives, in any order
TabsRespond ==
    \E sent \in net : \E ok \in BOOLEAN :
        LET request == sent.request
            result == IF sent.answer # NULL THEN Val(sent.answer)
                      ELSE ServiceResult(request)
            outcome == IF ok THEN [ok |-> TRUE, result |-> result]
                       ELSE [ok |-> FALSE, message |-> FailureMessage(request.kind)]
        IN  /\ hook' = Completed(hook, sent, outcome)
            /\ net' = net \ {sent}
            /\ UNCHANGED <<now, tz, devices, orgs, requests, view, resp, clients,
                           issued>>

TabsInit ==
    /\ now = FirstInstant
    /\ tz = 0
    /\ devices = <<>>
    /\ orgs = [n \in 1..(DefaultPageSize + 2) |-> TabsOrganization(n)]
    /\ requests = <<>>
    /\ view = [page |-> "OrganizationPage", activeTab |-> "active",
               searchQuery |-> <<>>, activePage |-> 1, archivedPage |-> 1,
               pageSize |-> DefaultPageSize, acted |-> 0]
    /\ hook = [tab \in Tabs |->
                  HookInitial("usePaginatedOrganizations", TabInputs(view, tab))]
    /\ resp = NoResp
    /\ clients = <<>>
    /\ issued = <<>>
    /\ net = {}

TabsNext ==
    \/ TabsMount
    \/ OrganizationPage_setSearchQuery
    \/ OrganizationPage_handleSearchReset
    \/ OrganizationPage_setPage
    \/ OrganizationPage_handleTabChange
    \/ OrganizationPage_handleRefresh
    \/ OrganizationPage_confirmArchive
    \/ TabsSettle
    \/ TabsRespond

\* The organization page with its active and archived lists, their requests
\* answered in any order
TabsSpec == TabsInit /\ [][TabsNext]_vars

-----------------------------------------------------------------------------
(* Claims about the paginated list calls (ListSpec) *)

\* The table a list call reads and the number of its rows the filters select.
\* Every store change replaces resp, so a list answer in resp was computed
\* from the tables as they are now.
MatchCount ==
    CASE resp.call = "devices" ->
           Cardinality({i \in 1..Len(devices) :
                           deviceMatches(Val(resp.filters), devices[i])})
      [] resp.call = "organizations" ->
           Cardinality({i \in 1..Len(orgs) :
                           organizationMatches(Val(resp.filters), orgs[i])})
      [] resp.call = "serviceRequests" ->
           Cardinality({i \in 1..Len(requests) :
                           serviceRequestMatches(Val(resp.filters), requests[i])})
      [] OTHER -> 0

AskedPage == Val(Val(resp.pagination).page)
AskedPageSize == Val(Val(resp.pagination).pageSize)

\* n = ceil(a / b), said without division
IsCeilingOf(n, a, b) == n * b >= a /\ (n - 1) * b < a

\* C1: a paginated list call (devices, organizations, service requests) with
\* page >= 1 and pageSize >= 1 returns totalPages = ceil(totalCount / pageSize)
\* and min(pageSize, totalCount - (page-1)*pageSize) rows, clipped to 0; with
\* 25 matching devices and pageSize 20, page 1 has 20 rows, page 2 has 5 and
\* totalPages is 2.
C1_PageArithmetic ==
    (/\ resp.call \in {"devices", "organizations", "serviceRequests"}
     /\ resp.pagination # NULL
     /\ AskedPage >= 1
     /\ AskedPageSize >= 1)
    => LET e == Val(resp.result)
       IN  /\ e.page = AskedPage
           /\ e.pageSize = AskedPageSize
           /\ e.totalCount = MatchCount
           /\ IsCeilingOf(e.totalPages, e.totalCount, e.pageSize)
           /\ Len(e.data) =
                 Max(0, Min(e.pageSize, e.totalCount - (e.page - 1) * e.pageSize))
           /\ (resp.call = "devices" /\ e.totalCount = 25 /\ e.pageSize = 20)
                 => /\ e.totalPages = 2
                    /\ e.page = 1 => Len(e.data) = 20
                    /\ e.page = 2 => Len(e.data) = 5

\* The example of C1: 25 matching devices, page 2 of size 20 holds 5 rows
C1_Witness ==
    /\ resp.call = "devices"
    /\ resp.pagination # NULL
    /\ MatchCount = 25
    /\ AskedPageSize = 20
    /\ AskedPage = 2
    /\ Len(Val(resp.result).data) = 5
    /\ Val(resp.result).totalPages = 2

NoArchivedFilter ==
    CASE resp.call = "devices" ->
           /\ Val(resp.filters).archived = NULL
           /\ Val(resp.filters).include_archived = NULL
      [] resp.call = "organizations" -> Val(resp.filters).archived = NULL
      [] resp.call = "expiredDevices" -> TRUE
      [] OTHER -> FALSE

\* C2: a list call that passes no archived-related filter never returns a row
\* whose archived flag is true (device lists, organization lists, dashboard
\* device lists).
C2_ArchivedExcludedByDefault ==
    (/\ resp.call \in {"devices", "organizations", "expiredDevices"}
     /\ NoArchivedFilter)
    => \A i \in 1..Len(Val(resp.result).data) :
           ~Val(resp.result).data[i].archived

-----------------------------------------------------------------------------
(* Claims about the AMC status (AmcSpec) *)

\* The device a row-level place last showed, and the calendar day it did so
ViewedDevice == Val(view.device)
ViewedToday == ToISODate(view.at)

RowPlaces == {"getAMCStatus", "dashboardTable", "deviceManagement", "devicesPage"}

\* The class section 4.2 assigns to an end date on a given day
AmcClass(end, today) ==
    IF end = NULL THEN "no_amc"
    ELSE IF Val(end) < today THEN "expired"
    ELSE IF Val(end) - today <= 7 THEN "expiring_soon"
    ELSE "active"

\* The classes a getAMCStatus result stands for
StatusClasses(status) ==
    {c \in {"no_amc", "expired", "expiring_soon", "active"} :
        CASE c = "no_amc" ->
               ~status.isInAMC /\ ~status.isExpired /\ ~status.isExpiringSoon
          [] c = "expired" -> status.isExpired
          [] c = "expiring_soon" -> status.isExpiringSoon
          [] c = "active" -> status.isInAMC /\ ~status.isExpiringSoon}

\* The class a dashboard status badge stands for
BadgeClass(badge) ==
    CASE badge.color = "gray" -> "no_amc"
      [] badge.color = "red" -> "expired"
      [] badge.color = "orange" -> "expiring_soon"
      [] badge.color = "green" -> "active"

InData(envelope, device) ==
    \E i \in 1..Len(envelope.data) : envelope.data[i].id = device.id

EndIs(device, day) == device.amc_end_date = Some(day)

\* C4: at the boundaries, an end date equal to today is expiring_soon with
\* daysUntilExpiry = 0, today+7 is expiring_soon, today+8 is active and
\* yesterday is expired - in getAMCStatus, in the dashboard's expired and
\* expiring-soon lists and in the dashboard statistics.
C4_Boundaries ==
    /\ view.place = "getAMCStatus" =>
          LET d == ViewedDevice
              st == view.out
          IN  /\ EndIs(d, ViewedToday) =>
                    st.isExpiringSoon /\ ~st.isExpired /\ st.daysUntilExpiry = Some(0)
              /\ EndIs(d, ViewedToday + 7) => st.isExpiringSoon /\ ~st.isExpired
              /\ EndIs(d, ViewedToday + 8) =>
                    st.isInAMC /\ ~st.isExpiringSoon /\ ~st.isExpired
              /\ EndIs(d, ViewedToday - 1) => st.isExpired /\ ~st.isExpiringSoon
    /\ view.place = "expiringSoonTab" =>
          \A i \in 1..Len(view.table) :
              LET d == view.table[i]
              IN  /\ (EndIs(d, ViewedToday) \/ EndIs(d, ViewedToday + 7))
                        => InData(view.out, d)
                  /\ (EndIs(d, ViewedToday + 8) \/ EndIs(d, ViewedToday - 1))
                        => ~InData(view.out, d)
    /\ view.place = "expiredTab" =>
          \A i \in 1..Len(view.table) :
              LET d == view.table[i]
              IN  /\ EndIs(d, ViewedToday - 1) => InData(view.out, d)
                  /\ EndIs(d, ViewedToday) => ~InData(view.out, d)
    /\ view.place = "stats" =>
          /\ view.out.devicesExpiringInSevenDays >=
                Cardinality({i \in 1..Len(view.table) :
                                \/ EndIs(view.table[i], ViewedToday)
                                \/ EndIs(view.table[i], ViewedToday + 7)})
          /\ view.out.devicesExpired >=
                Cardinality({i \in 1..Len(view.table) :
                                EndIs(view.table[i], ViewedToday - 1)})

\* C5: a nullable end date is classified as exactly one of no_amc (null),
\* expired (end < today), expiring_soon (0 <= days until expiry <= 7) and
\* active (days until expiry > 7), the days being end date minus today.
C5_Classification ==
    /\ view.place = "getAMCStatus" =>
          /\ StatusClasses(view.out) = {AmcClass(ViewedDevice.amc_end_date, ViewedToday)}
          /\ ViewedDevice.amc_end_date # NULL =>
                view.out.daysUntilExpiry =
                    Some(Val(ViewedDevice.amc_end_date) - ViewedToday)
    /\ view.place = "dashboardTable" =>
          /\ BadgeClass(view.out) = AmcClass(ViewedDevice.amc_end_date, ViewedToday)
          /\ ViewedDevice.amc_end_date # NULL =>
                view.out.days = Some(Val(ViewedDevice.amc_end_date) - ViewedToday)

\* getAMCStatus ran after midnight on the very day the AMC ends, and found
\* the device expiring soon
C5_Witness ==
    /\ view.place = "getAMCStatus"
    /\ EndIs(ViewedDevice, ViewedToday)
    /\ view.at % MsPerDay # 0
    /\ view.out.isExpiringSoon
    /\ view.out.daysUntilExpiry = Some(0)

\* Whether a place counts a device as expired / as expiring soon at instant t
ExpiredIn(place, d, t) ==
    CASE place = "getAMCStatus" -> getAMCStatus(d, t).isExpired
      [] place = "dashboardTable" -> statusBadge(d, t).color = "red"
      [] place = "deviceManagement" -> amcBadge(d, t).color = "red"
      [] place = "devicesPage" -> devicesPageBadge(d, t).color = "red"
      [] place = "expiredTab" ->
           getExpiredDevices(<<d>>, NULL, NoDeviceListFilters, t).totalCount = 1
      [] place = "stats" -> getDashboardStats(<<>>, <<d>>, t).devicesExpired = 1

ExpiringSoonIn(place, d, t) ==
    CASE place = "getAMCStatus" -> getAMCStatus(d, t).isExpiringSoon
      [] place = "dashboardTable" -> statusBadge(d, t).color = "orange"
      [] place = "expiringSoonTab" ->
           getExpiringSoonDevices(<<d>>, NULL, NoDeviceListFilters, t).totalCount = 1
      [] place = "stats" ->
           getDashboardStats(<<>>, <<d>>, t).devicesExpiringInSevenDays = 1

ExpiredPlaces ==
    {"getAMCStatus", "dashboardTable", "deviceManagement", "devicesPage",
     "expiredTab", "stats"}
ExpiringSoonPlaces == {"getAMCStatus", "dashboardTable", "expiringSoonTab", "stats"}

ShownExpired ==
    IF view.place = "getAMCStatus" THEN view.out.isExpired ELSE view.out.color = "red"
ShownExpiringSoon ==
    IF view.place = "getAMCStatus" THEN view.out.isExpiringSoon
    ELSE view.out.color = "orange"

\* C6: for every device and every instant, all the places that show the AMC
\* status (dashboard statistics and lists, device-list badges, device
\* management view) assign the device the same class.
C6_SameClassEverywhere ==
    /\ view.place \in RowPlaces =>
          \A q \in ExpiredPlaces :
              ExpiredIn(q, ViewedDevice, view.at) = ShownExpired
    /\ view.place \in {"getAMCStatus", "dashboardTable"} =>
          \A q \in ExpiringSoonPlaces :
              ExpiringSoonIn(q, ViewedDevice, view.at) = ShownExpiringSoon
    /\ view.place = "expiredTab" =>
          \A i \in 1..Len(view.table), q \in ExpiredPlaces :
              ExpiredIn(q, view.table[i], view.at) = InData(view.out, view.table[i])
    /\ view.place = "expiringSoonTab" =>
          \A i \in 1..Len(view.table), q \in ExpiringSoonPlaces :
              ExpiringSoonIn(q, view.table[i], view.at)
                  = InData(view.out, view.table[i])

\* What a row-level place shows for a device at instant t
PlaceOutput(place, d, t) ==
    CASE place = "getAMCStatus" -> getAMCStatus(d, t)
      [] place = "dashboardTable" -> statusBadge(d, t)
      [] place = "deviceManagement" -> amcBadge(d, t)
      [] place = "devicesPage" -> devicesPageBadge(d, t)

\* C8: the classification truncates to calendar days: for a fixed end date,
\* two instants of the same calendar day give the same class and the same
\* days until expiry (getAMCStatus, the dashboard tables, the devices page).
C8_SameDaySameClass ==
    (/\ view.place \in {"getAMCStatus", "dashboardTable", "devicesPage"}
     /\ ToISODate(now) = ToISODate(view.at))
    => PlaceOutput(view.place, ViewedDevice, now) = view.out

-----------------------------------------------------------------------------
(* Claims about ticket numbers (TicketSpec) *)

\* Creation j began after creation i had completed
Sequential(i, j) == issued[j].after >= i

\* Two instants of one calendar day, in UTC and in the browser's zone alike
SameCalendarDay(t1, t2) ==
    /\ ToISODate(t1) = ToISODate(t2)
    /\ LocalDate(t1, tz) = LocalDate(t2, tz)

\* C7: service requests created one after the other (each creation completes
\* before the next begins) on the same calendar day never receive the same
\* ticket number, not even within the same millisecond.
C7_SequentialTicketsDiffer ==
    \A i, j \in 1..Len(issued) :
        (/\ i < j
         /\ Sequential(i, j)
         /\ SameCalendarDay(issued[i].generatedAt, issued[j].generatedAt)
         /\ SameCalendarDay(issued[i].insertedAt, issued[j].insertedAt)
         /\ SameCalendarDay(issued[i].generatedAt, issued[j].insertedAt))
        => issued[i].ticketNo # issued[j].ticketNo

\* The service requests of a table created on the calendar day of instant t
CreatedThatDay(table, t) ==
    CountWhere(table, LAMBDA row : LocalDate(row.date_of_request, tz) = LocalDate(t, tz))

\* C9: a ticket number is {date}-{first 4 characters of the organization id}-
\* {first 4 characters of the device id}-{seq}, seq being the count of the
\* service requests already created on that calendar day plus 1, zero-padded
\* to 4 digits.
C9_TicketFormat ==
    \A i \in 1..Len(issued) :
        LET call == issued[i]
        IN  /\ call.ticketNo.date = LocalDate(call.generatedAt, tz)
            /\ call.ticketNo.orgCode = SubSeq(call.data.organization_id.head, 1, 4)
            /\ call.ticketNo.deviceCode = SubSeq(call.data.device_id.head, 1, 4)
            /\ call.ticketNo.seq =
                  PadStart(Digits(CreatedThatDay(call.counted, call.generatedAt) + 1), 4)

-----------------------------------------------------------------------------
(* Claims about the fetch hooks (HookSpec) *)

\* A request in flight whose response would be stale: the hook has issued a
\* newer request since, for other inputs
Stale(request) == request.id < hook.issued /\ request.inputs # hook.inputs

\* C3: in the paginated organization hook, the response to a request that was
\* in flight when the inputs changed is discarded whenever it arrives: it
\* never overwrites the data, error or loading state of the newer request.
C3_StaleResponseDiscarded ==
    [][hook.kind = "usePaginatedOrganizations" =>
          \A request \in net :
              (request \notin net' /\ Stale(request)) =>
                  /\ hook'.data = hook.data
                  /\ hook'.error = hook.error
                  /\ hook'.loading = hook.loading]_vars

FetchHooks == {"useServiceRequests", "useCompanyDevices"}

\* A response never makes the hook send a request
NoRequestOnResponse == (\E request \in net : request \notin net') => net' \subseteq net

\* C10 as stated: after a query-layer failure the hook never re-issues the
\* request on its own, and the error state persists until a manual refetch,
\* the only path back to a non-error state.
C10_OnlyManualRefetchClearsError ==
    [][hook.kind \in FetchHooks =>
          /\ NoRequestOnResponse
          /\ (hook.error # NULL /\ hook'.error # hook.error) => Refetch]_vars

\* C10, amended: after a query-layer failure the hook never re-issues the
\* request on its own, and the error state persists until a new fetch is
\* started by a manual refetch or by a change of the hook's inputs (filters,
\* pagination, company id): these are the only paths back to a non-error state.
C10_ErrorUntilNewFetch ==
    [][hook.kind \in FetchHooks =>
          /\ NoRequestOnResponse
          /\ (hook.error # NULL /\ hook'.error # hook.error) =>
                /\ Refetch \/ Rerender \/ UpdateFilters \/ UpdatePagination
                /\ hook'.issued = hook.issued + 1
                /\ net' # net]_vars

\* A query of a fetch hook failed: the hook shows the error and nothing is in
\* flight
C10_Witness ==
    /\ hook.kind \in FetchHooks
    /\ hook.phase = "mounted"
    /\ hook.error # NULL
    /\ ~hook.loading
    /\ hook.issued >= 1
    /\ net = {}

-----------------------------------------------------------------------------
(* Further claims about the paginated list calls (ListSpec) *)

\* The rows of the table that pass the call's filters, latest row first
FilteredLatestFirst ==
    LET table == CASE resp.call = "devices" -> devices
                   [] resp.call = "organizations" -> orgs
                   [] resp.call = "serviceRequests" -> requests
        passes(row) ==
            CASE resp.call = "devices" -> deviceMatches(Val(resp.filters), row)
              [] resp.call = "organizations" ->
                   organizationMatches(Val(resp.filters), row)
              [] resp.call = "serviceRequests" ->
                   serviceRequestMatches(Val(resp.filters), row)
        kept == SelectSeq(table, passes)
    IN  [k \in 1..Len(kept) |-> kept[Len(kept) + 1 - k]]

\* C14: for page p and page size s, the rows a paginated list call returns are
\* exactly those at zero-based positions from = (p-1)*s through
\* to = from + s - 1, inclusive, of the filtered result in its default order,
\* and the range agrees with the totalPages reported for the same totalCount:
\* the pages 1..totalPages are the ones whose range holds a row, and their
\* ranges hold every row.
C14_PageRange ==
    (/\ resp.call \in {"devices", "organizations", "serviceRequests"}
     /\ resp.pagination # NULL)
    => LET e == Val(resp.result)
           full == FilteredLatestFirst
           from == (AskedPage - 1) * AskedPageSize
           to == from + AskedPageSize - 1
           positions == {k \in 0..(Len(full) - 1) : from <= k /\ k <= to}
       IN  /\ e.totalCount = Len(full)
           /\ Len(e.data) = Cardinality(positions)
           /\ \A k \in positions : e.data[k - from + 1] = full[k + 1]
           /\ (positions # {}) <=> (AskedPage <= e.totalPages)
           /\ e.totalPages * AskedPageSize >= e.totalCount

\* Page 2 of size 2 of the device list has been asked for and holds the third
\* and fourth latest devices
C14_Witness ==
    /\ resp.call = "devices"
    /\ resp.pagination # NULL
    /\ AskedPage = 2
    /\ AskedPageSize = 2
    /\ Len(Val(resp.result).data) = 2
    /\ Val(resp.result).data[1] = FilteredLatestFirst[3]

\* The number of devices in the store with the given archived flag
ArchivedCount(flag) ==
    Cardinality({i \in 1..Len(devices) : devices[i].archived = flag})

\* C15: archived rows are returned only when the caller explicitly asks for
\* them: a device list call with include_archived set returns both archived
\* and non-archived rows; otherwise a call with archived = true returns only
\* archived rows, a call with archived = false returns only non-archived rows,
\* and a call with neither returns no archived row.
C15_ArchivedOnRequest ==
    resp.call = "devices" =>
        LET filters == Val(resp.filters)
            e == Val(resp.result)
            included == filters.include_archived = Some(TRUE)
            unfiltered == filters.search = NULL /\ filters.company_id = NULL
        IN  /\ included /\ unfiltered => e.totalCount = Len(devices)
            /\ ~included /\ filters.archived = Some(TRUE) =>
                  /\ \A k \in 1..Len(e.data) : e.data[k].archived
                  /\ unfiltered => e.totalCount = ArchivedCount(TRUE)
            /\ ~included /\ filters.archived # Some(TRUE) =>
                  /\ \A k \in 1..Len(e.data) : ~e.data[k].archived
                  /\ unfiltered => e.totalCount = ArchivedCount(FALSE)

\* A device list call with include_archived set has returned an archived and a
\* non-archived row
C15_Witness ==
    /\ resp.call = "devices"
    /\ Val(resp.filters).include_archived = Some(TRUE)
    /\ \E j, k \in 1..Len(Val(resp.result).data) :
          Val(resp.result).data[j].archived /\ ~Val(resp.result).data[k].archived

\* The table a list call reads
ListedTable ==
    CASE resp.call = "organizations" -> orgs
      [] resp.call = "serviceRequests" -> requests
      [] OTHER -> devices

\* The position of a returned row in its table: rows are stored in creation
\* order
CreatedPosition(row) ==
    CHOOSE i \in 1..Len(ListedTable) : ListedTable[i].id = row.id

\* The rows of a list answer are in the default order of the list
InDefaultOrder ==
    LET data == Val(resp.result).data
    IN  \A j, k \in 1..Len(data) :
            j < k =>
                IF resp.call = "expiredDevices"
                THEN Val(data[j].amc_end_date) <= Val(data[k].amc_end_date)
                ELSE CreatedPosition(data[j]) > CreatedPosition(data[k])

\* The call was made with an empty filter set
EmptyFilterSet ==
    CASE resp.call = "devices" -> Val(resp.filters) = NoDeviceFilters
      [] resp.call = "organizations" -> Val(resp.filters) = NoOrganizationFilters
      [] resp.call = "serviceRequests" -> Val(resp.filters) = NoServiceRequestFilters
      [] OTHER -> Val(resp.filters) = NoDeviceListFilters

\* C16: list results are always in a fixed default order, newest-created-first
\* for entity lists and soonest-AMC-expiry-first for the AMC list views, and
\* with an empty filter set the result is all unarchived rows in that order.
C16_DefaultOrderUnarchived ==
    resp.call \in {"devices", "organizations", "serviceRequests", "expiredDevices"} =>
        LET e == Val(resp.result)
            listed == {i \in 1..Len(ListedTable) :
                          /\ resp.call # "serviceRequests" => ~ListedTable[i].archived
                          /\ resp.call = "expiredDevices" =>
                                /\ ListedTable[i].amc_end_date # NULL
                                /\ Val(ListedTable[i].amc_end_date) < ToISODate(resp.at)}
        IN  /\ InDefaultOrder
            /\ EmptyFilterSet =>
                  /\ e.totalCount = Cardinality(listed)
                  /\ \A k \in 1..Len(e.data) : CreatedPosition(e.data[k]) \in listed

\* The texts a row holds in the columns its entity's search looks at
SearchedTexts(row) ==
    IF resp.call = "organizations"
    THEN {row.name} \cup {Val(c) : c \in {row.email, row.phone} \ {NULL}}
    ELSE {row.device_name} \cup
         {Val(c) : c \in {row.amc_id, row.mac_address, row.make, row.model} \ {NULL}}

\* One of the searched columns of the row contains the text, ignoring case
ContainsSearchText(row, text) ==
    \E column \in SearchedTexts(row) : Contains(LowerStr(column), LowerStr(text))

\* C20: free-text search is case-insensitive and matches partial substrings
\* against the entity's fixed OR-list of text columns: a row passes the search
\* exactly when at least one of those columns contains the search text
\* ignoring case. Every returned row contains the text, and the rows counted
\* are the ones containing it (all of them, or the unarchived ones).
C20_SearchIsSubstringMatch ==
    (/\ resp.call \in {"devices", "organizations"}
     /\ Val(resp.filters).search # NULL)
    => LET e == Val(resp.result)
           text == Val(Val(resp.filters).search)
           table == IF resp.call = "devices" THEN devices ELSE orgs
           containing == {i \in 1..Len(table) : ContainsSearchText(table[i], text)}
           unarchived == {i \in containing : ~table[i].archived}
       IN  /\ \A k \in 1..Len(e.data) : ContainsSearchText(e.data[k], text)
           /\ Cardinality(unarchived) <= e.totalCount
           /\ e.totalCount <= Cardinality(containing)

-----------------------------------------------------------------------------
(* Further claims about the AMC lists (AmcSpec) *)

\* C12: a device whose amc_end_date is one day before today appears in the
\* dashboard's expired list and does not appear in the expiring-soon list.
C12_YesterdayIsExpired ==
    \A i \in 1..Len(view.table) :
        EndIs(view.table[i], ViewedToday - 1) =>
            /\ view.place = "expiredTab" => InData(view.out, view.table[i])
            /\ view.place = "expiringSoonTab" => ~InData(view.out, view.table[i])

\* The expired tab has been loaded while the store holds a device whose AMC
\* ended yesterday
C12_Witness ==
    /\ view.place = "expiredTab"
    /\ \E i \in 1..Len(view.table) :
          EndIs(view.table[i], ViewedToday - 1) /\ InData(view.out, view.table[i])

-----------------------------------------------------------------------------
(* Claims about the pages and their handlers (PageSpec) *)

\* A step in which a mutation call settles and its handler runs to its end
MutationCompletes == Len(issued') = Len(issued) + 1

\* A step in which the page's list hook sends a new list request
ListRefetched ==
    /\ hook'.issued = hook.issued + 1
    /\ \E request \in net' \ net :
          request.kind = hook.kind /\ request.inputs = hook.inputs

\* C11 as stated: every mutation a handler of a list or detail page calls
\* (create, update, archive, unarchive, status change, engineer assignment)
\* is followed, once the call has completed, by a refetch of the list that
\* shows the entity.
C11_EveryMutationRefetches ==
    [][MutationCompletes => ListRefetched]_vars

\* C11 as amended: every mutation a handler calls that completes successfully
\* is followed by a refetch of the list that shows the entity.
C11_SuccessfulMutationRefetches ==
    [][(MutationCompletes /\ issued'[Len(issued')]) => ListRefetched]_vars

\* A mutation has succeeded and the list request its handler sent is in flight
C11_Witness ==
    /\ Len(issued) > 0 /\ issued[Len(issued)]
    /\ hook.issued >= 2
    /\ \E request \in net : request.id = hook.issued

\* C13: creating an entity (device, organization, service request) and then
\* fetching it by the returned id yields a record that equals the submitted
\* data on every submitted field and carries the server-assigned id.
C13_RoundTrip ==
    (resp.call = "create" /\ resp.fetched # NULL) =>
        LET fetched == Val(resp.fetched)
        IN  /\ fetched.id = resp.returned.id
            /\ \A field \in DOMAIN resp.submitted :
                  fetched[field] = resp.submitted[field]


\* The expertise set of the engineer with the given id
ExpertiseOf(engineerId) ==
    LET e == CHOOSE i \in 1..Len(ServiceEngineers) : ServiceEngineers[i].id = engineerId
    IN  ServiceEngineers[e].expertise

\* C17: every engineer that can be assigned to a service request through the
\* UI (assign action or edit form) has the request's service_type in its
\* expertise set, so a request is never left assigned to an engineer lacking
\* that expertise.
C17_AssigneeHasExpertise ==
    \A r \in 1..Len(requests) :
        requests[r].service_engineer # NULL =>
            requests[r].service_type \in ExpertiseOf(Val(requests[r].service_engineer))


\* A step sends a create or update request of a submitted form
SubmitSent ==
    /\ Len(clients') = Len(clients) + 1
    /\ clients'[Len(clients')].mutation \in {"create", "update"}

\* A required field of the form a page shows is empty
RequiredFieldEmpty(shown) ==
    LET values == Val(shown.form)
    IN  CASE shown.page = "OrganizationPage" -> values.name = <<>>
          [] shown.page = "DeviceManagement" -> values.device_name = <<>>
          [] shown.page = "ServiceRequestComponent" ->
               \/ values.product = <<>>
               \/ values.serial_no = <<>>
               \/ values.service_details = <<>>
               \/ values.organization_id = NULL
               \/ values.device_id = NULL

\* The email of the form is given and is not of the shape text@text
EmailMalformed(shown) ==
    /\ shown.page = "OrganizationPage"
    /\ LET email == Val(shown.form).email
       IN  /\ email # <<>>
           /\ \/ \E k \in 1..Len(email) : email[k] = " "
              \/ ~\E k \in 1..Len(email) : email[k] = "@" /\ 1 < k /\ k < Len(email)

\* The service date of the form is on a calendar day before today
ServiceDateBeforeToday(shown, t, offset) ==
    /\ shown.page = "ServiceRequestComponent"
    /\ Val(shown.form).date_of_service # NULL
    /\ LocalDate(Val(Val(shown.form).date_of_service), offset) < LocalDate(t, offset)

\* C18 as stated: while a required field is empty, an email is malformed or the
\* service date is before today, submitting the form sends no create or update
\* request.
C18_InvalidSubmitBlocked ==
    [][SubmitSent =>
          /\ ~RequiredFieldEmpty(view')
          /\ ~EmailMalformed(view')
          /\ ~ServiceDateBeforeToday(view', now', tz')]_vars

\* C18: while a client-side validation rule fails (a required field is empty
\* and the force-create switch of the form is off, an email is malformed, or
\* the service date is before today), submitting the form sends no create or
\* update request.
C18_RuleFailureBlocksSubmit ==
    [][SubmitSent =>
          /\ ~(RequiredFieldEmpty(view') /\ ~view'.forceCreate)
          /\ ~EmailMalformed(view')
          /\ ~ServiceDateBeforeToday(view', now', tz')]_vars

\* A form that fails a rule has been submitted and nothing was sent
C18_Witness ==
    /\ view.form # NULL
    /\ \/ RequiredFieldEmpty(view) /\ ~view.forceCreate
       \/ EmailMalformed(view)
       \/ ServiceDateBeforeToday(view, now, tz)
    /\ view.errors # {}
    /\ clients = <<>>
    /\ issued = <<>>


-----------------------------------------------------------------------------
(* Claims about signing in (AuthSpec) *)

\* The last sign-in that was answered used the credentials of an account that
\* is not an admin
NonAdminSignedIn ==
    /\ resp.call = "login"
    /\ \E a \in 1..Len(Accounts) :
          /\ Accounts[a].email = resp.credentials.email
          /\ Accounts[a].password = resp.credentials.password
          /\ Accounts[a].user_type # "admin"

-----------------------------------------------------------------------------
(* Further claims about ticket numbers (TicketSpec) *)

\* The creations that have generated their ticket number: the completed ones
\* and the ones still waiting for their insert
Generated ==
    [k \in 1..(Len(issued) + Len(clients)) |->
        LET call == IF k <= Len(issued) THEN issued[k] ELSE clients[k - Len(issued)]
        IN  [ticketNo |-> call.ticketNo, generatedAt |-> call.generatedAt,
             counted |-> call.counted, data |-> call.data]]

\* C21: ticket-number generation is a non-atomic read-then-write counter: two
\* service-request creations that read the same existing requests on the same
\* calendar day generate the same sequence number, and creations running
\* concurrently can do so.
C21_SameCountSameSequence ==
    \A i, j \in 1..Len(Generated) :
        (/\ Generated[i].counted = Generated[j].counted
         /\ LocalDate(Generated[i].generatedAt, tz) = LocalDate(Generated[j].generatedAt, tz))
        => Generated[i].ticketNo.seq = Generated[j].ticketNo.seq

\* Two creations ran concurrently on one calendar day, the second beginning
\* at a later instant and before the first had completed, and both generated
\* the same sequence number
C21_Witness ==
    \E i, j \in 1..Len(issued) :
        /\ i < j
        /\ issued[j].after < i
        /\ issued[i].generatedAt < issued[j].generatedAt
        /\ SameCalendarDay(issued[i].generatedAt, issued[j].generatedAt)
        /\ issued[i].counted = issued[j].counted
        /\ issued[i].ticketNo.seq = issued[j].ticketNo.seq


-----------------------------------------------------------------------------
(* Claims about the organization page and its two list hooks (TabsSpec) *)

\* C22: when several fetch hooks on one page have requests in flight in
\* parallel, the completion of a request (success or failure) changes only the
\* loading/error/data state of the hook instance that issued it; the state of
\* every other hook instance is left unchanged.
C22_CompletionIsLocal ==
    [][\A sent \in net :
          (net' = net \ {sent}) =>
              \A tab \in Tabs \ {sent.owner} : hook'[tab] = hook[tab]]_vars

\* Both hooks had a request in flight; the one of the active list has been
\* answered and its rows loaded while the archived list still waits
C22_Witness ==
    /\ hook["active"].phase = "mounted"
    /\ ~hook["active"].loading
    /\ hook["active"].data.data # <<>>
    /\ hook["archived"].loading
    /\ hook["archived"].data.data = <<>>
    /\ \E sent \in net : sent.owner = "archived"

-----------------------------------------------------------------------------
(* Further claims about the pages and their mutations (PageSpec) *)

\* A step in which a mutation call a handler awaited ends in a failure
MutationFails ==
    /\ MutationCompletes
    /\ ~issued'[Len(issued')]

\* The mutation hook's loading flag: set before the call is awaited, cleared
\* in the finally block, so it is up exactly while a call is pending
MutationLoading == clients # <<>>

RequestedPage(sent) == Val(Val(sent.request.inputs.pagination).page)

\* C24: whenever the search text of a list view is changed (or the filters of
\* a paginated list hook are changed through updateFilters), the page is reset
\* to the first page: the view's current page is 1 and the query that carries
\* the new filters is issued for page 1.
C24_SearchResetsPage ==
    [][view'.searchQuery # view.searchQuery =>
          /\ view'.activePage = 1
          /\ view'.archivedPage = 1
          /\ \A sent \in net' \ net : RequestedPage(sent) = 1]_vars

-----------------------------------------------------------------------------
(* Further claims about the fetch hooks (HookSpec) *)

\* The hook's latest fetch sent a request (useCompanyDevices sends none
\* without a company id)
LatestFetchSent ==
    hook.kind = "useCompanyDevices" => TruthyId(hook.inputs.companyId)

\* What the hook holds once the answer to the most recently issued request
\* (latest filters and page) has been applied
LatestAnswer ==
    LET result == ServiceResult([id |-> hook.issued, kind |-> hook.kind,
                                 inputs |-> hook.inputs])
    IN  IF hook.kind = "useCompanyDevices"
        THEN [data |-> result.data, totalCount |-> result.totalCount,
              totalPages |-> result.totalPages]
        ELSE result

\* C25: for the fetch hooks without a cancellation guard (service request
\* list, company device list), once every request in flight has completed
\* without an error, the data the hook holds is the response to the most
\* recently issued request (latest filters and page), in whatever order the
\* responses arrived.
C25_LatestResponseWins ==
    (/\ hook.kind \in FetchHooks
     /\ hook.phase = "mounted"
     /\ LatestFetchSent
     /\ net = {}
     /\ hook.error = NULL) => hook.data = LatestAnswer

\* C26: for every fetch hook, the loading flag is false only when no request
\* issued by that hook instance is still in flight: while any of its requests
\* is outstanding (an older one overlapped by a newer one included), loading
\* stays true.
C26_LoadingWhileInFlight ==
    (hook.phase = "mounted" /\ ~hook.loading) => net = {}

-----------------------------------------------------------------------------
(* Further claims about the creation of service requests (TicketSpec) *)

\* No two stored service requests share a ticket number
TicketNumbersUnique(table) ==
    \A i, j \in 1..Len(table) : i # j => table[i].ticket_no # table[j].ticket_no

\* C27: a creation whose generated ticket number already exists in the store
\* is rejected by the uniqueness constraint: the call ends in an error, no
\* service request is stored for it and it is not retried with a fresh
\* number; so after any interleaving of creations no two stored service
\* requests share a ticket number.
C27_DuplicateTicketRejected ==
    [][/\ TicketNumbersUnique(requests')
       /\ Len(issued') = Len(issued) + 1 =>
             LET call == issued'[Len(issued')]
             IN  (\E i \in 1..Len(requests) : requests[i].ticket_no = call.ticketNo) =>
                     /\ ~call.stored
                     /\ requests' = requests
                     /\ Len(clients') = Len(clients) - 1]_vars

\* A creation has been rejected: its ticket number was taken by a creation
\* that ran at the same time, whose row is stored
C27_Witness ==
    \E i \in 1..Len(issued) :
        /\ ~issued[i].stored
        /\ \E r \in 1..Len(requests) : requests[r].ticket_no = issued[i].ticketNo
        /\ clients = <<>>

-----------------------------------------------------------------------------
(* Further claims about the dashboard statistics (AmcSpec) *)

\* C28: in the dashboard statistics every device is counted in exactly one of
\* devicesInAMC and devicesOutOfAMC, so devicesInAMC + devicesOutOfAMC =
\* totalDevices for any AMC end dates (none, past, today, future) and any
\* current date.
C28_StatsPartition ==
    view.place = "stats" =>
        view.out.devicesInAMC + view.out.devicesOutOfAMC = view.out.totalDevices

-----------------------------------------------------------------------------
(* Further claims about the organization page (TabsSpec) *)

\* The archived flag the store holds for the organization a listed row shows
StoredArchived(row) ==
    \E i \in 1..Len(orgs) : orgs[i].id = row.id /\ orgs[i].archived

\* The last archive or unarchive succeeded, and every request the page has
\* sent has been answered without an error
ArchiveRefetched ==
    /\ issued # <<>> /\ issued[Len(issued)]
    /\ clients = <<>>
    /\ net = {}
    /\ \A tab \in Tabs : hook[tab].error = NULL

\* C29: on the organization page, after an archive or unarchive has succeeded
\* and the refetches of both tabs it triggers have completed, the tabs agree
\* with the store: the active tab shows no organization whose archived flag is
\* true and the archived tab shows none whose archived flag is false.
C29_TabsAgreeWithStore ==
    ArchiveRefetched =>
        \A tab \in Tabs :
            \A i \in 1..Len(hook[tab].data.data) :
                StoredArchived(hook[tab].data.data[i]) = (tab = "archived")

\* The page a tab of the view is on
CurrentPage(tab) == IF tab = "active" THEN view.activePage ELSE view.archivedPage

\* The number of pages the store holds for the current filters of a tab
TotalPagesNow(tab) ==
    organizationGetPaginated(orgs, hook[tab].inputs.filters,
                             hook[tab].inputs.pagination).totalPages

\* C30: in a list view, once all outstanding responses have arrived, the
\* current page p satisfies 1 <= p <= max(1, totalPages) for the current
\* filters: narrowing the result set by the search text, or shrinking it by
\* archiving rows, never leaves the view on a page beyond the last page.
C30_PageWithinRange ==
    (/\ \A tab \in Tabs : hook[tab].phase = "mounted"
     /\ clients = <<>>
     /\ net = {}) =>
        \A tab \in Tabs :
            /\ 1 <= CurrentPage(tab)
            /\ CurrentPage(tab) <= (IF TotalPagesNow(tab) > 1 THEN TotalPagesNow(tab)
                                    ELSE 1)

=============================================================================
